---- MODULE Spec2Model ----
(***************************************************************************)
(* A model of seal-server.py, the forward HTTP/HTTPS proxy of the          *)
(* repository: the process-global log sink (log and its guard), and one    *)
(* HttpProxyHandler with its client connection, its upstream slot          *)
(* (remote_addr, remote_conn, remote_input, remote_output), the retry      *)
(* loop of send_with_retry, the CONNECT path and the final cleanup; and,   *)
(* each under a specification of its own: one SocketTunnel with its two    *)
(* peers, main() supervising ThreadingServer.run, the rewrite of a request *)
(* by handle_request, the body of one message moved byte by byte by read,  *)
(* read_line, copy_bytes and copy_chunks, the header lines of one message  *)
(* parsed by read_message, one call of read or read_line on a stream of    *)
(* bytes, the calls of append, set and delete on one HttpHeaders, one call *)
(* of HttpResponse.code or phrase, the bytes a client sends behind its     *)
(* CONNECT request, copy_bytes for every integer Content-Length, and the   *)
(* response to a HEAD request.                                             *)
(*                                                                         *)
(* Python strings whose case matters (header names and values) are         *)
(* sequences of one-character strings, so that str.lower() is computed.    *)
(* Sockets are numbered 1, 2, ... in the order they are opened; 0 is None. *)
(***************************************************************************)
EXTENDS Integers, Sequences, FiniteSets, TLC

VARIABLES
    \* ---- the log sink (module level state and the threads inside log) ----
    log_lock,       \* the flag of the threading.Event _log_lock
    lpc,            \* thread -> its position inside log()
    llevel,         \* thread -> the level argument of its current call
    stdout,         \* the lines printed so far (the thread that printed each)
    \* ---- one HttpProxyHandler ----
    pc,             \* the handler thread's position
    keep_alive,     \* local of run()
    req,            \* the request returned by read_request
    resp,           \* the response returned by read_response
    retry_count,    \* local of send_with_retry
    remote_addr, remote_conn, remote_input, remote_output,   \* the upstream slot
    client_open,    \* the client socket is open
    socks,          \* upstream sockets opened so far: id -> [addr, open]
    exc,            \* the exception that is propagating ("" when none)
    \* ---- the environment and what an observer of the sockets sees ----
    sent,           \* requests the client has written to its socket
    rdbuf,          \* requests received into client_input.rdbuf, not yet parsed
    nread,          \* calls of read_request that returned a request
    nresp,          \* responses completely written to the client
    obs,            \* what an observer of the handler's sockets has counted
    sendlog         \* the socket events of the current send_with_retry call

VARIABLES
    \* ---- one SocketTunnel between the client (peer 1) and the upstream (2) ----
    tpc,            \* the position of the thread inside SocketTunnel.run
    tinq,           \* peer -> bytes it has sent that the proxy has not received
    teof,           \* peer -> it has shut down its sending side
    txc,            \* peer -> an exceptional condition is pending on its socket
    treset,         \* peer -> its connection is reset (recv and send raise)
    tr, tx,         \* the lists select() returned
    tdelivered,     \* peer -> bytes sendall has written to it
    tseen,          \* what the tunnel has met: an EOF, an exceptional condition
    topen           \* peer -> its socket is still open

tvars == <<tpc, tinq, teof, txc, treset, tr, tx, tdelivered, tseen, topen>>

VARIABLES
    \* ---- main() and the ThreadingServer it runs ----
    mpc,            \* the position of the main thread
    listen_s,       \* the local s of ThreadingServer.run: the listening socket
    restart_time,   \* local of main
    slept,          \* the arguments of the calls of time.sleep so far
    exit_code,      \* the status the process ended with (-1 while it runs)
    mexc,           \* the exception that ended the main thread ("" when none)
    accepted        \* handler threads started by the current run

mvars == <<mpc, listen_s, restart_time, slept, exit_code, mexc, accepted>>

VARIABLES
    \* ---- handle_request rewriting one request ----
    fpc,            \* the position inside run() and handle_request
    frequest,       \* the request read_request returned
    fwd             \* host, port and str(fwd) as passed to send_with_retry

fvars == <<fpc, frequest, fwd>>

VARIABLES
    \* ---- the body of one message, from a source stream to a destination ----
    bpc,            \* the position of the handler thread
    bmsg,           \* the message: its framing headers, its body, what follows
    bwire,          \* bytes of the source that recv has not returned yet
    brdbuf,         \* src.rdbuf
    bout,           \* the bytes written to the destination after the head
    bclosed,        \* the source peer has closed its side
    br,             \* the local r of read and of read_line
    bbody,          \* msg.body
    bcopied, bcount, \* locals of copy_bytes
    bret,           \* where copy_bytes returns to
    bexc,           \* the exception raised ("" when none)
    bused           \* the framing the body has been read or copied by

bvars == <<bpc, bmsg, bwire, brdbuf, bout, bclosed, br, bbody, bcopied, bcount,
           bret, bexc, bused>>

VARIABLES
    \* ---- read_message parsing the header lines of one message ----
    ppc,            \* the position inside read_message
    phead,          \* the header lines of the message, as sent
    plines,         \* the lines read_line has still to return
    pprev,          \* the local prev_line
    pheaders        \* m.headers

pvars == <<ppc, phead, plines, pprev, pheaders>>

VARIABLES
    \* ---- one call of read or read_line on an HttpInputStream ----
    spc,            \* the position inside the call
    sop,            \* the method called and its argument n
    sstream,        \* the bytes of the stream from the position of the call on
    swire,          \* bytes recv has not returned yet
    srdbuf,         \* self.rdbuf
    sr,             \* the local r
    sresult,        \* the value returned
    sexc,           \* the reason of the IOException raised ("" when none)
    sclosed         \* the peer has closed its side

svars == <<spc, sop, sstream, swire, srdbuf, sr, sresult, sexc, sclosed>>

VARIABLES
    \* ---- one HttpHeaders and the calls made on it ----
    hmap,           \* the object: its lists keys and values
    hlast           \* the last call: its name and arguments, the object before it

kvars == <<hmap, hlast>>

VARIABLES
    \* ---- one call of HttpResponse.code or HttpResponse.phrase ----
    cpc,            \* the position inside the call
    cfn,            \* the method called: "code" or "phrase"
    cline,          \* self.start_line
    ca,             \* the local a
    cret,           \* the value returned: the code, or the phrase
    cexc            \* the exception raised ("" when none)

cvars == <<cpc, cfn, cline, ca, cret, cexc>>

VARIABLES
    \* ---- the bytes a client sends after the head of its CONNECT request ----
    epc,            \* the position of the handler
    esent,          \* the bytes the client has written after the blank line
    ewire,          \* those of them the proxy has not received from the socket
    erdbuf,         \* client_input.rdbuf
    eup             \* the bytes the upstream socket has been sent

evars == <<epc, esent, ewire, erdbuf, eup>>

VARIABLES
    \* ---- forward_message_body on a message with any Content-Length ----
    ypc,            \* the position inside forward_message_body and copy_bytes
    ycount,         \* the argument count of copy_bytes
    ycopied,        \* the local copied
    yrdbuf,         \* src.rdbuf
    ywire,          \* bytes the peer has sent that recv has not returned
    yout,           \* the bytes written to dst
    yclosed,        \* the peer has closed its side
    yexc            \* the exception raised ("" when none)

yvars == <<ypc, ycount, ycopied, yrdbuf, ywire, yout, yclosed, yexc>>

VARIABLES
    \* ---- the response to one request, from read_response to its forwarding ----
    zpc,            \* the position of the handler
    zmethod,        \* the method of the request that was forwarded
    zlen,           \* the Content-Length of the response head
    zwire,          \* bytes the upstream has sent behind the head, not received
    zrdbuf,         \* remote_input.rdbuf
    zbody,          \* the local r of read(body_size), then resp.body
    zclosed,        \* the upstream has closed its side
    zhead,          \* the response head has been written to the client
    zexc            \* the exception raised ("" when none)

zvars == <<zpc, zmethod, zlen, zwire, zrdbuf, zbody, zclosed, zhead, zexc>>

\* the state outside the log sink and the handler's request loop
xvars == <<tvars, mvars, fvars, bvars, pvars, svars, kvars, cvars, evars, yvars, zvars>>

logvars == <<log_lock, lpc, llevel, stdout>>
hvars == <<pc, keep_alive, req, resp, retry_count, remote_addr, remote_conn,
           remote_input, remote_output, client_open, socks, exc,
           sent, rdbuf, nread, nresp, obs, sendlog>>
vars == <<logvars, hvars, xvars>>

\* ------------------------------------------------------------------------
\* Bounds of the model
\* ------------------------------------------------------------------------
NThreads == 2           \* handler threads that call log()
MaxLines == 3           \* log lines printed in one behaviour
MaxRequests == 2        \* requests one client sends on its connection
MaxTunnel == 1          \* forwarding rounds of a tunnel before it ends
MaxTunnelBytes == 2     \* bytes each peer of a tunnel sends
MaxAccepts == 2         \* connections one run of the server accepts
MaxHeaders == 2         \* header fields of a request that is rewritten
MaxBody == 2            \* bytes of a body, and of the data of a chunk
MaxHeadLines == 3       \* header lines of a message that is parsed
MaxStream == 4          \* bytes of a stream read is called on, and of a line
MaxRdbuf == 3           \* the capacity self.maxrdbuf of the stream, scaled down
MaxEntries == 3         \* entries of the HttpHeaders the calls are made on
MaxEarly == 5           \* bytes a client writes behind its CONNECT request
MaxNegative == 3        \* Content-Length values down to -MaxNegative

\* ------------------------------------------------------------------------
\* Program constants
\* ------------------------------------------------------------------------
LOG_LEVEL == 3
retries == 3
DefaultPort == 80
restart_time_initial == 3
restart_time_step == 3
restart_time_upper_bound == 30
Running == -1           \* no exit status yet

\* ------------------------------------------------------------------------
\* str.lower()
\* ------------------------------------------------------------------------
UpperCase == <<"A","B","C","D","E","F","G","H","I","J","K","L","M",
               "N","O","P","Q","R","S","T","U","V","W","X","Y","Z">>
LowerCase == <<"a","b","c","d","e","f","g","h","i","j","k","l","m",
               "n","o","p","q","r","s","t","u","v","w","x","y","z">>

LowerChar(c) ==
    IF \E i \in 1..Len(UpperCase) : UpperCase[i] = c
    THEN LowerCase[CHOOSE i \in 1..Len(UpperCase) : UpperCase[i] = c]
    ELSE c

lower(s) == [i \in 1..Len(s) |-> LowerChar(s[i])]


\* Python string literals used by the handler, as character sequences
S_ProxyConnection == <<"P","r","o","x","y","-","C","o","n","n","e","c","t","i","o","n">>
S_proxy_connection == <<"p","r","o","x","y","-","c","o","n","n","e","c","t","i","o","n">>
S_keep_alive == <<"k","e","e","p","-","a","l","i","v","e">>
S_Keep_Alive == <<"K","e","e","p","-","A","l","i","v","e">>
S_close == <<"c","l","o","s","e">>
S_UserAgent == <<"U","s","e","r","-","A","g","e","n","t">>
S_t == <<"t">>
S_chunked == <<"c","h","u","n","k","e","d">>
S_Chunked == <<"C","h","u","n","k","e","d">>
S_gzip == <<"g","z","i","p">>
S_TransferEncoding == <<"T","r","a","n","s","f","e","r","-","E","n","c","o","d","i","n","g">>

\* Python's None where a string is expected (no character sequence equals it)
NoneStr == <<"<None>">>
\* Python's None where a socket or a stream is expected
None == 0
\* Python's None where an address tuple (host, port) is expected
NoAddr == <<"<None>", -1>>

\* str.endswith
endswith(s, suffix) ==
    /\ Len(s) >= Len(suffix)
    /\ SubSeq(s, Len(s) - Len(suffix) + 1, Len(s)) = suffix

\* ------------------------------------------------------------------------
\* HttpHeaders: two parallel lists, keys and values
\* ------------------------------------------------------------------------
\* HttpHeaders.find(key): the first index whose key equals key ignoring case,
\* counted from 1; 0 stands for Python's -1
find(headers, key) ==
    LET hits == {i \in 1..Len(headers.keys) : lower(headers.keys[i]) = lower(key)}
    IN  IF hits = {} THEN 0 ELSE CHOOSE i \in hits : \A j \in hits : i <= j

\* HttpHeaders.get(key), default None
get(headers, key) ==
    IF find(headers, key) = 0 THEN NoneStr ELSE headers.values[find(headers, key)]

\* ------------------------------------------------------------------------
\* Messages: the inputs the environment can produce
\* ------------------------------------------------------------------------
maxrdbuf == 131072      \* 128 * 1024
AbsentLength == -1      \* the default handed to get_int("Content-Length", -1)

H(keys, values) == [keys |-> keys, values |-> values]

\* Header blocks a client can send along with a request
HeaderBlocks ==
    { H(<<>>, <<>>),
      H(<<S_ProxyConnection>>, <<S_keep_alive>>),
      H(<<S_proxy_connection>>, <<S_Keep_Alive>>),
      H(<<S_ProxyConnection>>, <<S_close>>),
      H(<<S_UserAgent, S_ProxyConnection>>, <<S_t, S_close>>),
      H(<<S_UserAgent>>, <<S_t>>) }

Hosts == {"a.example", "b.example"}
Targets == {<<h, DefaultPort>> : h \in Hosts}

\* content_length is get_int("Content-Length", -1) of the message and
\* transfer_encoding is get("Transfer-Encoding") of the message
Framings ==
    { [content_length |-> AbsentLength, transfer_encoding |-> NoneStr],
      [content_length |-> 2,            transfer_encoding |-> NoneStr],
      [content_length |-> maxrdbuf + 1, transfer_encoding |-> NoneStr],
      [content_length |-> AbsentLength, transfer_encoding |-> S_Chunked],
      [content_length |-> AbsentLength, transfer_encoding |-> S_gzip] }

NoFraming == [content_length |-> AbsentLength, transfer_encoding |-> NoneStr]

Request(method, host, port, headers, framing) ==
    [method |-> method, host |-> host, port |-> port, headers |-> headers,
     content_length |-> framing.content_length,
     transfer_encoding |-> framing.transfer_encoding]

\* The requests a client can send: forwarded methods, a body-bearing method,
\* CONNECT (also with the port 0, which handle_CONNECT rejects) and a method
\* the proxy does not know
Requests ==
    {Request("GET", t[1], t[2], h, NoFraming) : t \in Targets, h \in HeaderBlocks}
    \cup {Request("POST", t[1], t[2], H(<<>>, <<>>), f) : t \in Targets, f \in Framings}
    \cup {Request("CONNECT", t[1], t[2], H(<<>>, <<>>), NoFraming) : t \in Targets}
    \cup {Request("CONNECT", "a.example", 0, H(<<>>, <<>>), NoFraming),
          Request("BREW", "a.example", DefaultPort, H(<<>>, <<>>), NoFraming)}

NoRequest == Request("", "", 0, H(<<>>, <<>>), NoFraming)

\* The response heads an upstream can send
Responses == Framings
NoResponse == NoFraming

\* ------------------------------------------------------------------------
\* log (the process-global sink)
\* ------------------------------------------------------------------------
Threads == 1..NThreads
\* the levels the program passes: error 0, warn 1, hit 2, log 3, run's level=5
Levels == {0, 1, 2, 3, 5}

\* a thread calls log(msg, prefix, level)
LogCall(t) ==
    /\ lpc[t] = "idle"
    /\ Len(stdout) < MaxLines
    /\ \E l \in Levels : llevel' = [llevel EXCEPT ![t] = l]
    /\ lpc' = [lpc EXCEPT ![t] = "entered"]
    /\ UNCHANGED <<log_lock, stdout, hvars, xvars>>

\* if level > LOG_LEVEL: return
LogLevelCheck(t) ==
    /\ lpc[t] = "entered"
    /\ lpc' = [lpc EXCEPT ![t] = IF llevel[t] > LOG_LEVEL THEN "idle" ELSE "wait"]
    /\ UNCHANGED <<log_lock, llevel, stdout, hvars, xvars>>

\* _log_lock.wait(): Event.wait returns once the flag is set and leaves it set
LogWait(t) ==
    /\ lpc[t] = "wait"
    /\ log_lock = TRUE
    /\ lpc' = [lpc EXCEPT ![t] = "print"]
    /\ UNCHANGED <<log_lock, llevel, stdout, hvars, xvars>>

\* t = ...strftime(...); print(prefix + " [" + t + "] " + msg)
LogPrint(t) ==
    /\ lpc[t] = "print"
    /\ stdout' = Append(stdout, t)
    /\ lpc' = [lpc EXCEPT ![t] = "set"]
    /\ UNCHANGED <<log_lock, llevel, hvars, xvars>>

\* _log_lock.set()
LogSet(t) ==
    /\ lpc[t] = "set"
    /\ log_lock' = TRUE
    /\ lpc' = [lpc EXCEPT ![t] = "idle"]
    /\ UNCHANGED <<llevel, stdout, hvars, xvars>>

\* ------------------------------------------------------------------------
\* The upstream slot of HttpProxyHandler
\* ------------------------------------------------------------------------
Slot == [remote_addr |-> remote_addr, remote_conn |-> remote_conn,
         remote_input |-> remote_input, remote_output |-> remote_output,
         socks |-> socks]

SetSlot(s) ==
    /\ remote_addr' = s.remote_addr
    /\ remote_conn' = s.remote_conn
    /\ remote_input' = s.remote_input
    /\ remote_output' = s.remote_output
    /\ socks' = s.socks

\* close_nothrow that swallows the call without closing
close_nothrow_noop(table, sock) == table

\* close_nothrow(sock) on the table of sockets
close_nothrow(table, sock) ==
    IF sock = None THEN table ELSE [table EXCEPT ![sock].open = FALSE]

\* close_remote without its last line: remote_addr keeps the old address
close_remote_keeps_addr(s) ==
    IF s.remote_conn = None
    THEN s
    ELSE [remote_addr |-> s.remote_addr, remote_conn |-> None,
          remote_input |-> None, remote_output |-> None,
          socks |-> close_nothrow(s.socks, s.remote_conn)]

\* HttpProxyHandler.close_remote
close_remote(s) ==
    IF s.remote_conn = None
    THEN s
    ELSE [remote_addr |-> NoAddr, remote_conn |-> None,
          remote_input |-> None, remote_output |-> None,
          socks |-> close_nothrow(s.socks, s.remote_conn)]

\* socket.create_connection((host, port)) succeeding: the new socket's number
NewSock(table) == Len(table) + 1
Opened(table, addr) == Append(table, [addr |-> addr, open |-> TRUE])

OpenSocks == {i \in 1..Len(socks) : socks[i].open}

\* a slot that is never reused
NeedConnect_always(addr, host, port) == TRUE

\* the test `self.remote_addr != (host, port)` of send_with_retry and
\* handle_CONNECT
NeedConnect(addr, host, port) == addr # <<host, port>>

\* ------------------------------------------------------------------------
\* HttpProxyHandler.run: the request loop
\* ------------------------------------------------------------------------
NoExc == [type |-> "", by |-> ""]
Raise(type, by) == [type |-> type, by |-> by]

\* the comparison of line 504 without .lower()
KeepAlive_case_sensitive(headers) ==
    IF get(headers, S_ProxyConnection) # NoneStr
    THEN get(headers, S_ProxyConnection) = S_keep_alive
    ELSE TRUE

\* run(), lines 501-504: keep_alive from the Proxy-Connection header
KeepAlive(headers) ==
    IF get(headers, S_ProxyConnection) # NoneStr
    THEN lower(get(headers, S_ProxyConnection)) = S_keep_alive
    ELSE TRUE

\* The client writes one more request to its socket; it does not wait for
\* the responses to the earlier ones.
ClientSend ==
    /\ sent < MaxRequests
    /\ sent' = sent + 1
    /\ UNCHANGED <<logvars, xvars, pc, keep_alive, req, resp, retry_count, remote_addr,
                   remote_conn, remote_input, remote_output, client_open, socks,
                   exc, rdbuf, nread, nresp, obs, sendlog>>

\* how many requests one recv() may bring into rdbuf when `avail` are waiting
\* in the socket: any non-empty prefix of the bytes (wait(), line 305)
RecvSizes(avail) == 1..avail

\* r = self.client_input.read_request(), then lines 501-504.
\* wait() receives only when rdbuf is empty.
ReadRequest ==
    /\ pc = "read_request"
    /\ \E r \in Requests :
         /\ req' = r
         /\ keep_alive' = KeepAlive(r.headers)
    /\ IF rdbuf > 0
       THEN rdbuf' = rdbuf - 1
       ELSE \E k \in RecvSizes(sent - nread - rdbuf) : rdbuf' = k - 1
    /\ nread' = nread + 1
    /\ pc' = "handle_request"
    /\ UNCHANGED <<logvars, xvars, resp, retry_count, remote_addr, remote_conn,
                   remote_input, remote_output, client_open, socks, exc, sent,
                   nresp, obs, sendlog>>

\* read_request fails: recv raises ("Connection reset.") or returns no bytes
\* ("Connection closed.")
ReadRequestFails ==
    /\ pc = "read_request"
    /\ rdbuf = 0
    /\ exc' = Raise("IOException", "read_request")
    /\ pc' = "except"
    /\ UNCHANGED <<logvars, xvars, keep_alive, req, resp, retry_count, remote_addr,
                   remote_conn, remote_input, remote_output, client_open, socks,
                   sent, rdbuf, nread, nresp, obs, sendlog>>

\* a list of methods that lets every method of the model through
KnownMethods_with_BREW ==
    {"GET", "HEAD", "POST", "PUT", "DELETE", "TRACE", "OPTIONS", "BREW"}

\* handle_request, line 538: the methods that are forwarded
KnownMethods == {"GET", "HEAD", "POST", "PUT", "DELETE", "TRACE", "OPTIONS"}

\* handle_request, lines 535-573: dispatch on the method, build fwd, enter
\* send_with_retry with retry_count = 0
HandleRequest ==
    /\ pc = "handle_request"
    /\ IF req.method = "CONNECT"
       THEN /\ pc' = "handle_CONNECT"
            /\ UNCHANGED <<exc, retry_count, sendlog, obs>>
       ELSE IF req.method \notin KnownMethods
       THEN /\ exc' = Raise("IOException", "handle_request")
            /\ pc' = "except"
            /\ UNCHANGED <<retry_count, sendlog, obs>>
       ELSE /\ retry_count' = 0
            /\ sendlog' = <<>>
            /\ obs' = [obs EXCEPT !.targets = @ \cup {<<req.host, req.port>>}]
            /\ pc' = "send_loop"
            /\ exc' = exc
    /\ UNCHANGED <<logvars, xvars, keep_alive, req, resp, remote_addr, remote_conn,
                   remote_input, remote_output, client_open, socks, sent, rdbuf,
                   nread, nresp>>

\* ------------------------------------------------------------------------
\* HttpProxyHandler.send_with_retry
\* ------------------------------------------------------------------------
\* the types of the values handle_request passes: host is a slice of
\* urlparts.netloc (a str), port is 80 or int(...)
TypeOfHost == "str"
TypeOfPort == "int"

\* Python's "%d" % v: a TypeError unless v is a number
PercentD(type) == IF type \in {"int", "float"} THEN "ok" ELSE "TypeError"

\* "Couldn't connect %d:%d" % (host, port), line 629
FormatCouldntConnect ==
    IF PercentD(TypeOfHost) = "ok" /\ PercentD(TypeOfPort) = "ok"
    THEN "ok" ELSE "TypeError"

\* the except clause of the loop: close_remote(); retry_count += 1
AttemptFailed(s, event) ==
    /\ SetSlot(close_remote(s))
    /\ retry_count' = retry_count + 1
    /\ sendlog' = Append(sendlog, event)
    /\ pc' = "send_loop"

\* the head of one attempt: `while retry_count < retries`, then the test of
\* the slot's address; a changed target closes the slot and records the new
\* address before connecting
SendLoop ==
    /\ pc = "send_loop"
    /\ IF retry_count < retries
       THEN IF NeedConnect(remote_addr, req.host, req.port)
            THEN /\ SetSlot([close_remote(Slot) EXCEPT
                                !.remote_addr = <<req.host, req.port>>])
                 /\ pc' = "connect"
            ELSE /\ pc' = "write"
                 /\ UNCHANGED <<remote_addr, remote_conn, remote_input,
                                remote_output, socks>>
       ELSE /\ pc' = "send_failed"
            /\ UNCHANGED <<remote_addr, remote_conn, remote_input,
                           remote_output, socks>>
    /\ UNCHANGED <<logvars, xvars, keep_alive, req, resp, retry_count, client_open,
                   exc, sent, rdbuf, nread, nresp, obs, sendlog>>

\* self.remote_conn = socket.create_connection((host, port)) and the two
\* stream wrappers; a failure is caught by the except clause
SendConnect ==
    /\ pc = "connect"
    /\ obs' = [obs EXCEPT !.nconnect = @ + 1]
    /\ \E ok \in BOOLEAN :
         IF ok
         THEN /\ SetSlot([Slot EXCEPT
                             !.remote_conn = NewSock(socks),
                             !.remote_input = NewSock(socks),
                             !.remote_output = NewSock(socks),
                             !.socks = Opened(socks, <<req.host, req.port>>)])
              /\ sendlog' = Append(sendlog, "connect_ok")
              /\ pc' = "write"
              /\ UNCHANGED retry_count
         ELSE AttemptFailed(Slot, "connect_fail")
    /\ UNCHANGED <<logvars, xvars, keep_alive, req, resp, client_open, exc, sent,
                   rdbuf, nread, nresp>>

\* the body of a POST is streamed after the head (line 574); read_request
\* sets body_pending for every method it does not list (lines 391-395)
BodylessMethods == {"GET", "HEAD", "DELETE", "CONNECT", "TRACE"}
RequestBodyPending(r) == r.method \notin BodylessMethods
StreamsRequestBody(r) == r.method = "POST" /\ RequestBodyPending(r)

\* self.remote_output.write(data); break.  With no stream in the slot the
\* attribute access raises, which the except clause catches as well.
SendWrite ==
    /\ pc = "write"
    /\ IF remote_output = None
       THEN /\ AttemptFailed(Slot, "write_none")
            /\ obs' = obs
       ELSE \E ok \in BOOLEAN :
              IF ok
              THEN /\ sendlog' = Append(sendlog, "write_ok")
                   /\ obs' = [obs EXCEPT !.wrote = @ \cup {remote_conn},
                                         !.nup = @ + 1]
                   /\ pc' = IF StreamsRequestBody(req)
                            THEN "request_body" ELSE "read_response"
                   /\ UNCHANGED <<retry_count, remote_addr, remote_conn,
                                  remote_input, remote_output, socks>>
              ELSE /\ AttemptFailed(Slot, "write_fail")
                   /\ obs' = [obs EXCEPT !.wfail = TRUE]
    /\ UNCHANGED <<logvars, xvars, keep_alive, req, resp, client_open, exc, sent,
                   rdbuf, nread, nresp>>

\* after the loop, lines 628-630: the log line is formatted first, then the
\* IOException is raised
SendFailed ==
    /\ pc = "send_failed"
    /\ exc' = IF FormatCouldntConnect = "ok"
              THEN Raise("IOException", "send_with_retry")
              ELSE Raise(FormatCouldntConnect, "send_with_retry")
    /\ pc' = "except"
    /\ UNCHANGED <<logvars, xvars, keep_alive, req, resp, retry_count, remote_addr,
                   remote_conn, remote_input, remote_output, client_open, socks,
                   sent, rdbuf, nread, nresp, obs, sendlog>>

\* ------------------------------------------------------------------------
\* Body transfer and the response half of handle_request
\* ------------------------------------------------------------------------
\* forward_message_body(dst, msg, src): which copy it runs.  With no
\* Content-Length and no Transfer-Encoding, get() returns None and
\* None.lower() raises AttributeError.
forward_message_body(msg) ==
    IF msg.content_length # AbsentLength THEN "copy_bytes"
    ELSE IF msg.transfer_encoding = NoneStr THEN "AttributeError"
    ELSE IF endswith(lower(msg.transfer_encoding), S_chunked) THEN "copy_chunks"
    ELSE "nothing"

\* read_message, lines 379-385: the body is buffered when Content-Length is
\* within the buffer, and pending otherwise
body_pending(msg) ==
    ~(0 <= msg.content_length /\ msg.content_length <= maxrdbuf)

\* the outcome of one body transfer: it returns, or an exception leaves it
TransferOutcomes(msg) ==
    CASE forward_message_body(msg) = "AttributeError" -> {"AttributeError"}
      [] forward_message_body(msg) = "nothing" -> {"ok"}
      [] OTHER -> {"ok", "IOException"}

\* forward_message_body(self.remote_output, fwd, self.client_input), line 576
RequestBody ==
    /\ pc = "request_body"
    /\ \E out \in TransferOutcomes(req) :
         IF out = "ok"
         THEN pc' = "read_response" /\ exc' = exc
         ELSE pc' = "except" /\ exc' = Raise(out, "forward_message_body")
    /\ UNCHANGED <<logvars, xvars, keep_alive, req, resp, retry_count, remote_addr,
                   remote_conn, remote_input, remote_output, client_open, socks,
                   sent, rdbuf, nread, nresp, obs, sendlog>>

\* resp = self.remote_input.read_response(), line 579
ReadResponse ==
    /\ pc = "read_response"
    /\ \E r \in Responses : resp' = r
    /\ obs' = [obs EXCEPT !.nupresp = @ + 1]
    /\ pc' = "write_response"
    /\ UNCHANGED <<logvars, xvars, keep_alive, req, retry_count, remote_addr,
                   remote_conn, remote_input, remote_output, client_open, socks,
                   exc, sent, rdbuf, nread, nresp, sendlog>>

ReadResponseFails ==
    /\ pc = "read_response"
    /\ exc' = Raise("IOException", "read_response")
    /\ pc' = "except"
    /\ UNCHANGED <<logvars, xvars, keep_alive, req, resp, retry_count, remote_addr,
                   remote_conn, remote_input, remote_output, client_open, socks,
                   sent, rdbuf, nread, nresp, obs, sendlog>>

\* handle_request returning right after the response head
AfterResponseHead_returns_early(msg) == "loop"

\* lines 581-582: a pending body is streamed before handle_request returns
AfterResponseHead(msg) == IF body_pending(msg) THEN "response_body" ELSE "loop"

\* self.client_output.write(str(resp)), line 580; handle_request returns
\* here when the body is not pending, and its local resp is gone with it.
\* nresp counts the responses whose forwarding is complete.
WriteResponse ==
    /\ pc = "write_response"
    /\ \E ok \in BOOLEAN :
         IF ~ok
         THEN /\ pc' = "except"
              /\ exc' = Raise("IOException", "write")
              /\ nresp' = nresp
         ELSE /\ exc' = exc
              /\ pc' = AfterResponseHead(resp)
              /\ nresp' = IF body_pending(resp) THEN nresp ELSE nresp + 1
    /\ resp' = IF pc' = "loop" THEN NoResponse ELSE resp
    /\ UNCHANGED <<logvars, xvars, keep_alive, req, retry_count, remote_addr,
                   remote_conn, remote_input, remote_output, client_open, socks,
                   sent, rdbuf, nread, obs, sendlog>>

\* forward_message_body(self.client_output, resp, self.remote_input), line
\* 582, after which handle_request returns
ResponseBody ==
    /\ pc = "response_body"
    /\ \E out \in TransferOutcomes(resp) :
         IF out = "ok"
         THEN pc' = "loop" /\ exc' = exc /\ nresp' = nresp + 1
         ELSE /\ pc' = "except"
              /\ exc' = Raise(out, "forward_message_body")
              /\ nresp' = nresp
    /\ resp' = IF pc' = "loop" THEN NoResponse ELSE resp
    /\ UNCHANGED <<logvars, xvars, keep_alive, req, retry_count, remote_addr,
                   remote_conn, remote_input, remote_output, client_open, socks,
                   sent, rdbuf, nread, obs, sendlog>>

\* `while keep_alive` of run(), after handle_request has returned
LoopTest ==
    /\ pc = "loop"
    /\ pc' = IF keep_alive THEN "read_request" ELSE "finally"
    /\ UNCHANGED <<logvars, xvars, keep_alive, req, resp, retry_count, remote_addr,
                   remote_conn, remote_input, remote_output, client_open, socks,
                   exc, sent, rdbuf, nread, nresp, obs, sendlog>>

\* ------------------------------------------------------------------------
\* HttpProxyHandler.handle_CONNECT and SocketTunnel
\* ------------------------------------------------------------------------
\* line 590: `if not len(host) or port <= 0`
BadTarget(host, port) == host = "" \/ port <= 0

\* lines 585-598: the target is parsed, the peer is looked up and logged,
\* and the slot is closed when it names another address
HandleConnect ==
    /\ pc = "handle_CONNECT"
    /\ \E peer_ok \in BOOLEAN :
         IF BadTarget(req.host, req.port)
         THEN /\ exc' = Raise("IOException", "handle_CONNECT")
              /\ pc' = "except"
              /\ UNCHANGED <<remote_addr, remote_conn, remote_input,
                             remote_output, socks>>
         ELSE IF ~peer_ok
         THEN /\ exc' = Raise("socket.error", "getpeername")
              /\ pc' = "except"
              /\ UNCHANGED <<remote_addr, remote_conn, remote_input,
                             remote_output, socks>>
         ELSE IF NeedConnect(remote_addr, req.host, req.port)
         THEN /\ SetSlot(close_remote(Slot))
              /\ pc' = "tunnel_connect"
              /\ exc' = exc
         ELSE /\ pc' = "write_200"
              /\ exc' = exc
              /\ UNCHANGED <<remote_addr, remote_conn, remote_input,
                             remote_output, socks>>
    /\ UNCHANGED <<logvars, xvars, keep_alive, req, resp, retry_count, client_open,
                   sent, rdbuf, nread, nresp, obs, sendlog>>

\* a connect failure that is swallowed instead of answered
AfterTunnelConnect_ignores_failure(ok) == "write_200"

\* lines 596-604: a failed connect is answered in the except clause, a
\* successful one falls through to the 200
AfterTunnelConnect(ok) == IF ok THEN "write_200" ELSE "write_503"

\* self.remote_conn = socket.create_connection((host, port)), line 599;
\* only remote_conn is assigned
TunnelConnect ==
    /\ pc = "tunnel_connect"
    /\ \E ok \in BOOLEAN :
         /\ IF ok
            THEN /\ remote_conn' = NewSock(socks)
                 /\ socks' = Opened(socks, <<req.host, req.port>>)
                 /\ obs' = [obs EXCEPT !.nconnect = @ + 1]
            ELSE /\ obs' = [obs EXCEPT !.nconnect = @ + 1, !.cfail = TRUE]
                 /\ UNCHANGED <<remote_conn, socks>>
         /\ pc' = AfterTunnelConnect(ok)
    /\ UNCHANGED <<logvars, xvars, keep_alive, req, resp, retry_count, remote_addr,
                   remote_input, remote_output, client_open, exc, sent, rdbuf,
                   nread, nresp, sendlog>>

\* lines 601-602: the 503 is written, then the IOException is raised; a
\* failing write raises its own IOException
Write503 ==
    /\ pc = "write_503"
    /\ \E ok \in BOOLEAN :
         IF ok
         THEN /\ obs' = [obs EXCEPT !.synth = Append(@, "503")]
              /\ exc' = Raise("IOException", "handle_CONNECT")
         ELSE /\ obs' = obs
              /\ exc' = Raise("IOException", "write")
    /\ pc' = "except"
    /\ UNCHANGED <<logvars, xvars, keep_alive, req, resp, retry_count, remote_addr,
                   remote_conn, remote_input, remote_output, client_open, socks,
                   sent, rdbuf, nread, nresp, sendlog>>

\* line 604, then SocketTunnel((client_conn, remote_conn)).run()
Write200 ==
    /\ pc = "write_200"
    /\ \E ok \in BOOLEAN :
         IF ok
         THEN /\ obs' = [obs EXCEPT !.synth = Append(@, "200"),
                                    !.tunnel_peer = remote_conn]
              /\ pc' = "tunnel"
              /\ exc' = exc
         ELSE /\ obs' = obs
              /\ pc' = "except"
              /\ exc' = Raise("IOException", "write")
    /\ UNCHANGED <<logvars, xvars, keep_alive, req, resp, retry_count, remote_addr,
                   remote_conn, remote_input, remote_output, client_open, socks,
                   sent, rdbuf, nread, nresp, sendlog>>

\* one round of SocketTunnel.run that forwards and goes on
TunnelForward ==
    /\ pc = "tunnel"
    /\ obs.rounds < MaxTunnel
    /\ obs' = [obs EXCEPT !.rounds = @ + 1]
    /\ UNCHANGED <<logvars, xvars, pc, keep_alive, req, resp, retry_count, remote_addr,
                   remote_conn, remote_input, remote_output, client_open, socks,
                   exc, sent, rdbuf, nread, nresp, sendlog>>

\* the tunnel ends: run() raises IOException("Socket tunnel closed."), or
\* recv / sendall raises socket.error
TunnelEnds ==
    /\ pc = "tunnel"
    /\ \E e \in {"IOException", "socket.error"} : exc' = Raise(e, "SocketTunnel")
    /\ pc' = "except"
    /\ UNCHANGED <<logvars, xvars, keep_alive, req, resp, retry_count, remote_addr,
                   remote_conn, remote_input, remote_output, client_open, socks,
                   sent, rdbuf, nread, nresp, obs, sendlog>>

\* ------------------------------------------------------------------------
\* The except and finally clauses of run()
\* ------------------------------------------------------------------------
\* run(), line 508: log(e.reason, level=5)
ExceptLogLevel == 5

\* log(), lines 24-25: a call whose level is above LOG_LEVEL returns before
\* it prints
Prints(level) == ~(level > LOG_LEVEL)

\* `except IOException, e: log(e.reason, level=5)` and `except Exception:
\* pass`: neither raises; the line of the first is printed when log lets
\* its level through, and the second prints nothing
Except ==
    /\ pc = "except"
    /\ stdout' = IF exc.type = "IOException" /\ Prints(ExceptLogLevel)
                 THEN Append(stdout, "handler")
                 ELSE stdout
    /\ pc' = "finally"
    /\ UNCHANGED <<log_lock, lpc, llevel, xvars, keep_alive, req, resp, retry_count, remote_addr,
                   remote_conn, remote_input, remote_output, client_open, socks,
                   exc, sent, rdbuf, nread, nresp, obs, sendlog>>

\* final_clean() without its last line: the slot is never closed
FinalClean_forgets_remote ==
    /\ pc = "finally"
    /\ client_open' = FALSE
    /\ pc' = "done"
    /\ UNCHANGED <<logvars, xvars, keep_alive, req, resp, retry_count, remote_addr,
                   remote_conn, remote_input, remote_output, socks, exc, sent,
                   rdbuf, nread, nresp, obs, sendlog>>

\* final_clean(): the client streams and socket are closed, then the slot
FinalClean ==
    /\ pc = "finally"
    /\ client_open' = FALSE
    /\ SetSlot(close_remote(Slot))
    /\ pc' = "done"
    /\ UNCHANGED <<logvars, xvars, keep_alive, req, resp, retry_count, exc, sent,
                   rdbuf, nread, nresp, obs, sendlog>>

\* ------------------------------------------------------------------------
\* SocketTunnel.run and _forward, with the two peers as the environment
\* ------------------------------------------------------------------------
Peers == {1, 2}
OtherPeer(i) == 3 - i

exceptTunnel == <<logvars, hvars, mvars, fvars, bvars, pvars, svars, kvars, cvars, evars, yvars, zvars>>

\* select() reports a socket readable when bytes are waiting, when the peer
\* has shut down (recv returns "") and when the connection is reset
Readable(i) == tinq[i] > 0 \/ teof[i] \/ treset[i]
Exceptional(i) == txc[i]

ReadyList(ready(_)) ==
    (IF ready(1) THEN <<1>> ELSE <<>>) \o (IF ready(2) THEN <<2>> ELSE <<>>)

\* r, w, x = select.select(self.peers, [], self.peers): blocks until a peer
\* is ready
TSelect ==
    /\ tpc = "select"
    /\ \E i \in Peers : Readable(i) \/ Exceptional(i)
    /\ tr' = ReadyList(Readable)
    /\ tx' = ReadyList(Exceptional)
    /\ tpc' = "forward_first"
    /\ UNCHANGED <<tinq, teof, txc, treset, tdelivered, tseen, topen, exceptTunnel>>

\* _forward(src): d = src.recv(16 * 1024); dst.sendall(d).  A reset
\* connection makes recv or sendall raise; at EOF recv returns "" and the
\* empty string is sent on.  `after` is the position when nothing raises.
Forward(src, after) ==
    IF treset[src]
    THEN /\ tpc' = "raised"
         /\ UNCHANGED <<tinq, tdelivered, tseen>>
    ELSE \E k \in (IF tinq[src] > 0 THEN 1..tinq[src] ELSE {0}) :
         \E send_ok \in BOOLEAN :
            /\ treset[OtherPeer(src)] => (~send_ok \/ k = 0)
            /\ ~treset[OtherPeer(src)] => send_ok
            /\ tinq' = [tinq EXCEPT ![src] = @ - k]
            /\ tseen' = [tseen EXCEPT !.eof = @ \/ k = 0]
            /\ IF send_ok
               THEN /\ tdelivered' = [tdelivered EXCEPT ![OtherPeer(src)] = @ + k]
                    /\ tpc' = after
               ELSE /\ tpc' = "raised"
                    /\ UNCHANGED tdelivered

\* if len(r): self._forward(r[0])
TForwardFirst ==
    /\ tpc = "forward_first"
    /\ IF Len(tr) >= 1
       THEN Forward(tr[1], "forward_second")
       ELSE tpc' = "forward_second" /\ UNCHANGED <<tinq, tdelivered, tseen>>
    /\ UNCHANGED <<teof, txc, treset, tr, tx, topen, exceptTunnel>>

\* if len(r) == 2: self._forward(r[1])
TForwardSecond ==
    /\ tpc = "forward_second"
    /\ IF Len(tr) = 2
       THEN Forward(tr[2], "check_x")
       ELSE tpc' = "check_x" /\ UNCHANGED <<tinq, tdelivered, tseen>>
    /\ UNCHANGED <<teof, txc, treset, tr, tx, topen, exceptTunnel>>

\* if len(x): break, and then raise IOException("Socket tunnel closed.");
\* r and x are bound anew by the next select
TCheckX ==
    /\ tpc = "check_x"
    /\ tpc' = IF Len(tx) > 0 THEN "raised" ELSE "select"
    /\ tseen' = [tseen EXCEPT !.x = @ \/ Len(tx) > 0]
    /\ tr' = <<>>
    /\ tx' = <<>>
    /\ UNCHANGED <<tinq, teof, txc, treset, tdelivered, topen, exceptTunnel>>

\* the exception reaches run()'s finally clause: final_clean closes the
\* client socket and close_remote the upstream socket
TClose ==
    /\ tpc = "raised"
    /\ topen' = [i \in Peers |-> FALSE]
    /\ tpc' = "closed"
    /\ UNCHANGED <<tinq, teof, txc, treset, tr, tx, tdelivered, tseen, exceptTunnel>>

TunnelThread ==
    \/ TSelect
    \/ TForwardFirst
    \/ TForwardSecond
    \/ TCheckX
    \/ TClose

\* a peer sends one more byte
PeerSend(i) ==
    /\ tpc # "closed"
    /\ ~teof[i] /\ ~treset[i]
    /\ tinq[i] + tdelivered[OtherPeer(i)] < MaxTunnelBytes
    /\ tinq' = [tinq EXCEPT ![i] = @ + 1]
    /\ UNCHANGED <<tpc, teof, txc, treset, tr, tx, tdelivered, tseen, topen, exceptTunnel>>

\* a peer shuts down its sending side: the proxy's recv will return ""
PeerShutdown(i) ==
    /\ tpc # "closed"
    /\ ~teof[i] /\ ~treset[i]
    /\ teof' = [teof EXCEPT ![i] = TRUE]
    /\ UNCHANGED <<tpc, tinq, txc, treset, tr, tx, tdelivered, tseen, topen, exceptTunnel>>

\* a peer sends urgent data: its socket shows an exceptional condition
PeerUrgent(i) ==
    /\ tpc # "closed"
    /\ ~txc[i] /\ ~treset[i]
    /\ txc' = [txc EXCEPT ![i] = TRUE]
    /\ UNCHANGED <<tpc, tinq, teof, treset, tr, tx, tdelivered, tseen, topen, exceptTunnel>>

\* a peer resets its connection
PeerReset(i) ==
    /\ tpc # "closed"
    /\ ~treset[i]
    /\ treset' = [treset EXCEPT ![i] = TRUE]
    /\ UNCHANGED <<tpc, tinq, teof, txc, tr, tx, tdelivered, tseen, topen, exceptTunnel>>

InitTunnel ==
    /\ tpc = "select"
    /\ tinq = [i \in Peers |-> 0]
    /\ teof = [i \in Peers |-> FALSE]
    /\ txc = [i \in Peers |-> FALSE]
    /\ treset = [i \in Peers |-> FALSE]
    /\ tr = <<>>
    /\ tx = <<>>
    /\ tdelivered = [i \in Peers |-> 0]
    /\ tseen = [eof |-> FALSE, x |-> FALSE]
    /\ topen = [i \in Peers |-> TRUE]

\* ------------------------------------------------------------------------
\* main (the supervisor) and ThreadingServer.run
\* ------------------------------------------------------------------------
exceptMain == <<logvars, hvars, tvars, fvars, bvars, pvars, svars, kvars, cvars, evars, yvars, zvars>>

ListeningSocket == 1    \* the object socket.socket() returned; None is 0

\* server = ThreadingServer(...); server.run(), whose first statement is
\* s = None
MainStartServer ==
    /\ mpc = "loop"
    /\ mpc' = "socket"
    /\ listen_s' = None
    /\ accepted' = 0
    /\ UNCHANGED <<restart_time, slept, exit_code, mexc, exceptMain>>

\* s = socket.socket(): on a failure s is still None
RunSocket ==
    /\ mpc = "socket"
    /\ \E ok \in BOOLEAN :
          /\ listen_s' = IF ok THEN ListeningSocket ELSE None
          /\ mpc' = IF ok THEN "bind" ELSE "except"
    /\ UNCHANGED <<restart_time, slept, exit_code, mexc, accepted, exceptMain>>

\* s.bind(self.address)
RunBind ==
    /\ mpc = "bind"
    /\ \E ok \in BOOLEAN : mpc' = IF ok THEN "listen" ELSE "except"
    /\ UNCHANGED <<listen_s, restart_time, slept, exit_code, mexc, accepted, exceptMain>>

\* s.listen(self.backlog); log("Starting proxy service ...")
RunListen ==
    /\ mpc = "listen"
    /\ \E ok \in BOOLEAN : mpc' = IF ok THEN "accept" ELSE "except"
    /\ UNCHANGED <<listen_s, restart_time, slept, exit_code, mexc, accepted, exceptMain>>

\* while True: handler = self.handler(s.accept()[0]);
\* threading.Thread(target=handler.run).start()
RunAccept ==
    /\ mpc = "accept"
    /\ \E ok \in BOOLEAN :
          IF ok
          THEN /\ accepted < MaxAccepts
               /\ accepted' = accepted + 1
               /\ mpc' = "accept"
          ELSE /\ accepted' = accepted
               /\ mpc' = "except"
    /\ UNCHANGED <<listen_s, restart_time, slept, exit_code, mexc, exceptMain>>

\* except Exception: error("Caught an unhandled exception, ...")
RunExcept ==
    /\ mpc = "except"
    /\ mpc' = "finally"
    /\ UNCHANGED <<listen_s, restart_time, slept, exit_code, mexc, accepted, exceptMain>>

\* the exit status of the interpreter when an exception leaves the main
\* thread
UncaughtStatus == 1

\* finally: s.close(); None has no attribute close, the AttributeError
\* is raised outside the try block, leaves run() and main(), which has no
\* handler, and ends the process
RunFinally ==
    /\ mpc = "finally"
    /\ IF listen_s = None
       THEN /\ mpc' = "dead"
            /\ mexc' = "AttributeError"
            /\ exit_code' = UncaughtStatus
            /\ listen_s' = listen_s
       ELSE /\ mpc' = "check"
            /\ listen_s' = None
            /\ UNCHANGED <<exit_code, mexc>>
    /\ UNCHANGED <<restart_time, slept, accepted, exceptMain>>

\* if restart_time > restart_time_upper_bound: error(...); exit(1)
MainCheck ==
    /\ mpc = "check"
    /\ IF restart_time > restart_time_upper_bound
       THEN /\ mpc' = "exited"
            /\ exit_code' = 1
       ELSE /\ mpc' = "sleep"
            /\ exit_code' = exit_code
    /\ UNCHANGED <<listen_s, restart_time, slept, mexc, accepted, exceptMain>>

\* warn(...); time.sleep(restart_time); restart_time += 3
MainSleep ==
    /\ mpc = "sleep"
    /\ slept' = Append(slept, restart_time)
    /\ restart_time' = restart_time + restart_time_step
    /\ mpc' = "loop"
    /\ UNCHANGED <<listen_s, exit_code, mexc, accepted, exceptMain>>

InitMain ==
    /\ mpc = "loop"
    /\ listen_s = None
    /\ restart_time = restart_time_initial
    /\ slept = <<>>
    /\ exit_code = Running
    /\ mexc = ""
    /\ accepted = 0

\* ------------------------------------------------------------------------
\* handle_request: the rewrite of a request into the one sent upstream
\* ------------------------------------------------------------------------
exceptForward == <<logvars, hvars, tvars, mvars, bvars, pvars, svars, kvars, cvars, evars, yvars, zvars>>

S_GET == <<"G","E","T">>
S_POST == <<"P","O","S","T">>
S_HTTP11 == <<"H","T","T","P","/","1",".","1">>
S_http == <<"h","t","t","p">>
S_Host == <<"H","o","s","t">>
S_host == <<"h","o","s","t">>
S_proxy_ == <<"p","r","o","x","y","-">>
S_Accept == <<"A","c","c","e","p","t">>
S_example_com == <<"e","x","a","m","p","l","e",".","c","o","m">>
S_a_example_8080 ==
    <<"a",".","e","x","a","m","p","l","e",":","8","0","8","0">>
S_a_example == <<"a",".","e","x","a","m","p","l","e">>
S_path_a == <<"/","a">>
S_query_b1 == <<"b","=","1">>
S_path_root == <<"/">>
S_path_index == <<"/","i","n","d","e","x">>
CRLF == <<"\r","\n">>

Digits == <<"0","1","2","3","4","5","6","7","8","9">>
IsDigit(c) == \E k \in 1..Len(Digits) : Digits[k] = c
IsLetter(c) ==
    \E k \in 1..Len(UpperCase) : UpperCase[k] = c \/ LowerCase[k] = c

\* str.startswith and str.find of one character (0 where Python gives -1,
\* positions counted from 1)
startswith(str, prefix) ==
    /\ Len(str) >= Len(prefix)
    /\ SubSeq(str, 1, Len(prefix)) = prefix

str_find(str, c) ==
    LET hits == {i \in 1..Len(str) : str[i] = c}
    IN  IF hits = {} THEN 0 ELSE CHOOSE i \in hits : \A j \in hits : i <= j

\* int(str) of a decimal numeral
RECURSIVE int(_)
int(str) ==
    IF str = <<>> THEN 0
    ELSE 10 * int(SubSeq(str, 1, Len(str) - 1))
         + (CHOOSE k \in 1..Len(Digits) : Digits[k] = str[Len(str)]) - 1

\* urlparse.urlparse(url) of the standard library, for URLs without
\* ;parameters: an optional scheme up to the first ":", the netloc after
\* "//" up to the first of "/", "?" and "#", the fragment dropped, the query
\* after the first "?"
urlparse(url) ==
    LET i == str_find(url, ":")
        head == SubSeq(url, 1, i - 1)
        rest == SubSeq(url, i + 1, Len(url))
        hasScheme ==
            /\ i > 1
            /\ \A k \in 1..Len(head) :
                   IsLetter(head[k]) \/ IsDigit(head[k]) \/ head[k] \in {"+", "-", "."}
            /\ \/ head = S_http
               \/ rest = <<>>
               \/ \E k \in 1..Len(rest) : ~IsDigit(rest[k])
        url1 == IF hasScheme THEN rest ELSE url
        hasNetloc == startswith(url1, <<"/", "/">>)
        delims == {k \in 3..Len(url1) : url1[k] \in {"/", "?", "#"}}
        delim == IF delims = {} THEN Len(url1) + 1
                 ELSE CHOOSE k \in delims : \A j \in delims : k <= j
        url2 == IF hasNetloc THEN SubSeq(url1, delim, Len(url1)) ELSE url1
        f == str_find(url2, "#")
        url3 == IF f > 0 THEN SubSeq(url2, 1, f - 1) ELSE url2
        q == str_find(url3, "?")
    IN  [scheme |-> IF hasScheme THEN lower(head) ELSE <<>>,
         netloc |-> IF hasNetloc THEN SubSeq(url1, 3, delim - 1) ELSE <<>>,
         path   |-> IF q > 0 THEN SubSeq(url3, 1, q - 1) ELSE url3,
         query  |-> IF q > 0 THEN SubSeq(url3, q + 1, Len(url3)) ELSE <<>>]

\* lines 546-551: host = urlparts.netloc; port = 80; and, with a ":" in the
\* netloc, the two sides of the first ":"
HostOf(netloc) ==
    IF str_find(netloc, ":") > 0
    THEN SubSeq(netloc, 1, str_find(netloc, ":") - 1)
    ELSE netloc

PortOf(netloc) ==
    IF str_find(netloc, ":") > 0
    THEN int(SubSeq(netloc, str_find(netloc, ":") + 1, Len(netloc)))
    ELSE DefaultPort

\* lines 553-555: target = urlparts.path, with "?" + query when there is one
ForwardTarget(urlparts) ==
    urlparts.path \o (IF Len(urlparts.query) > 0 THEN <<"?">> \o urlparts.query
                      ELSE <<>>)

\* HttpRequest.set_request(target, method), version = "HTTP/1.1"
set_request(target, method) == method \o <<" ">> \o target \o <<" ">> \o S_HTTP11

\* HttpMessage.has(key): self.headers.find(key) != -1
has_case_sensitive(headers, key) == \E i \in 1..Len(headers.keys) : headers.keys[i] = key

has(headers, key) == find(headers, key) # 0

\* HttpHeaders.append(key, value)
append(headers, key, value) ==
    H(Append(headers.keys, key), Append(headers.values, value))

\* line 564: request.headers.keys[i].lower().startswith("proxy-")
IsProxyHeader_case_sensitive(key) == startswith(key, S_proxy_)

IsProxyHeader(key) == startswith(lower(key), S_proxy_)

\* lines 563-567: the loop over the headers of the request, from index i,
\* adding to the headers `out` of fwd
RECURSIVE CopyHeaders(_, _, _)
CopyHeaders(out, headers, i) ==
    IF i > Len(headers.keys) THEN out
    ELSE IF IsProxyHeader(headers.keys[i])
         THEN CopyHeaders(out, headers, i + 1)
         ELSE CopyHeaders(append(out, headers.keys[i], headers.values[i]),
                          headers, i + 1)

\* the headers with the Host field added after the copy
ForwardHeaders_host_last(headers, netloc) ==
    LET copied == CopyHeaders(H(<<>>, <<>>), headers, 1)
    IN  IF ~has(headers, S_Host) THEN append(copied, S_Host, netloc) ELSE copied

\* lines 559-567: fwd.add("Host", urlparts.netloc) when the request has no
\* Host, and then the copy
ForwardHeaders(headers, netloc) ==
    CopyHeaders(IF ~has(headers, S_Host) THEN H(<<S_Host>>, <<netloc>>)
                ELSE H(<<>>, <<>>),
                headers, 1)

\* HttpHeaders.__str__, from index i
RECURSIVE headers_str(_, _)
headers_str(headers, i) ==
    IF i > Len(headers.keys) THEN <<>>
    ELSE headers.keys[i] \o <<":", " ">> \o headers.values[i] \o CRLF
         \o headers_str(headers, i + 1)

\* HttpMessage.__str__
message_str(start_line, headers, body) ==
    start_line \o CRLF \o headers_str(headers, 1) \o CRLF \o body

\* The request targets of the model, each kept with the parts it is made of
AbsoluteForm(authority, path, query) ==
    [form |-> "absolute", authority |-> authority, path |-> path, query |-> query,
     target |-> S_http \o <<":", "/", "/">> \o authority \o path
                \o (IF query = <<>> THEN <<>> ELSE <<"?">> \o query)]

OriginForm(path, query) ==
    [form |-> "origin", authority |-> <<>>, path |-> path, query |-> query,
     target |-> path \o (IF query = <<>> THEN <<>> ELSE <<"?">> \o query)]

FwdTargets ==
    { AbsoluteForm(S_example_com, S_path_a, S_query_b1),
      AbsoluteForm(S_a_example_8080, S_path_root, <<>>),
      OriginForm(S_path_index, <<>>) }

\* The header fields a request of the model is made of
FwdFields ==
    { <<S_ProxyConnection, S_keep_alive>>,
      <<S_proxy_connection, S_close>>,
      <<S_UserAgent, S_t>>,
      <<S_Accept, S_t>>,
      <<S_Host, S_example_com>>,
      <<S_host, S_a_example>> }

FwdHeaderBlocks ==
    UNION { { H([i \in 1..n |-> fs[i][1]], [i \in 1..n |-> fs[i][2]]) :
              fs \in [1..n -> FwdFields] } : n \in 0..MaxHeaders }

NoForward == [host |-> <<>>, port |-> 0, headers |-> H(<<>>, <<>>), data |-> <<>>]

\* request = self.client_input.read_request() returns a request whose
\* method handle_request forwards
FwdReadRequest ==
    /\ fpc = "read_request"
    /\ \E m \in {S_GET, S_POST}, t \in FwdTargets, h \in FwdHeaderBlocks :
          frequest' = [method |-> m, url |-> t, headers |-> h]
    /\ fpc' = "handle_request"
    /\ UNCHANGED <<fwd, exceptForward>>

\* handle_request, lines 543-570, up to the call
\* self.send_with_retry(host, port, str(fwd)); the request carries no body
FwdHandleRequest ==
    /\ fpc = "handle_request"
    /\ LET urlparts == urlparse(frequest.url.target)
           headers == ForwardHeaders(frequest.headers, urlparts.netloc)
       IN  fwd' = [host |-> HostOf(urlparts.netloc),
                   port |-> PortOf(urlparts.netloc),
                   headers |-> headers,
                   data |-> message_str(
                       set_request(ForwardTarget(urlparts), frequest.method),
                       headers, <<>>)]
    /\ fpc' = "send_with_retry"
    /\ UNCHANGED <<frequest, exceptForward>>

InitForward ==
    /\ fpc = "read_request"
    /\ frequest = [method |-> <<>>, url |-> OriginForm(<<>>, <<>>),
                   headers |-> H(<<>>, <<>>)]
    /\ fwd = NoForward

\* ------------------------------------------------------------------------
\* The body of one message at the level of bytes: HttpInputStream.wait,
\* read and read_line, HttpOutputStream.copy_bytes and copy_chunks
\* ------------------------------------------------------------------------
exceptBody == <<logvars, hvars, tvars, mvars, fvars, pvars, svars, kvars, cvars, evars, yvars, zvars>>

BodyBytes == <<"x", "y", "z", "w">>
NextMessageBytes == <<"G">>     \* what a peer may send after the message
S_ext == <<";", "e">>           \* a chunk extension
S_trailer == <<"T", ":", "v">>  \* a trailer line

Min(a, b) == IF a < b THEN a ELSE b

HexDigits == <<"0","1","2","3","4","5","6","7","8","9","a","b","c","d","e","f">>
IsHexDigit(c) == \E k \in 1..Len(HexDigits) : HexDigits[k] = LowerChar(c)

\* int(str, 16) ignores white space around the numeral
Whitespace == {" ", "\t", "\n", "\r", "\f"}

RECURSIVE strip_whitespace(_)
strip_whitespace(str) ==
    IF str = <<>> THEN str
    ELSE IF Head(str) \in Whitespace THEN strip_whitespace(Tail(str))
    ELSE IF str[Len(str)] \in Whitespace
         THEN strip_whitespace(SubSeq(str, 1, Len(str) - 1))
    ELSE str

RECURSIVE HexValue(_)
HexValue(numeral) ==
    IF numeral = <<>> THEN 0
    ELSE 16 * HexValue(SubSeq(numeral, 1, Len(numeral) - 1))
         + (CHOOSE k \in 1..Len(HexDigits) :
                HexDigits[k] = LowerChar(numeral[Len(numeral)])) - 1

\* int(str, 16) of a hexadecimal numeral without sign and without 0x;
\* IsHex(str) when it does not raise ValueError
IsHex(str) ==
    /\ strip_whitespace(str) # <<>>
    /\ \A k \in 1..Len(strip_whitespace(str)) : IsHexDigit(strip_whitespace(str)[k])

int16(str) == HexValue(strip_whitespace(str))

\* str.strip(" \t")
RECURSIVE strip(_)
strip(str) ==
    IF str = <<>> THEN str
    ELSE IF Head(str) \in {" ", "\t"} THEN strip(Tail(str))
    ELSE IF str[Len(str)] \in {" ", "\t"} THEN strip(SubSeq(str, 1, Len(str) - 1))
    ELSE str

\* str.split(' ', 1)[0]
FirstWord(str) ==
    IF str_find(str, " ") > 0 THEN SubSeq(str, 1, str_find(str, " ") - 1) ELSE str

\* line 426: chunk_header.strip(" \t").split(' ', 1)[0]
ChunkSizeToken(chunk_header) == FirstWord(strip(chunk_header))

\* self.rdbuf.find("\r\n"), 0 where Python gives -1
FindCRLF(buf) ==
    LET hits == {i \in 1..(Len(buf) - 1) : buf[i] = "\r" /\ buf[i + 1] = "\n"}
    IN  IF hits = {} THEN 0 ELSE CHOOSE i \in hits : \A j \in hits : i <= j

\* ---- the messages of the model, each with the bytes of its body ----
Chunk(ext, data) == [ext |-> ext, data |-> data]

RECURSIVE ChunkBytes(_)
ChunkBytes(chunks) ==
    IF chunks = <<>> THEN <<>>
    ELSE <<HexDigits[Len(Head(chunks).data) + 1]>> \o Head(chunks).ext \o CRLF
         \o Head(chunks).data \o CRLF \o ChunkBytes(Tail(chunks))

RECURSIVE TrailerBytes(_)
TrailerBytes(lines) ==
    IF lines = <<>> THEN <<>> ELSE Head(lines) \o CRLF \o TrailerBytes(Tail(lines))

\* a chunked body: the chunks, the zero chunk, the trailer lines, a blank line
ChunkedBody(chunks, trailer) ==
    ChunkBytes(chunks) \o <<"0">> \o CRLF \o TrailerBytes(trailer) \o CRLF

Chunks ==
    {Chunk(ext, SubSeq(BodyBytes, 1, n)) : ext \in {<<>>, S_ext}, n \in 1..MaxBody}

ChunkLists ==
    {<<>>} \cup {<<c>> : c \in Chunks}
           \cup {<<Chunk(<<>>, <<"x">>), Chunk(<<>>, <<"y">>)>>}

ChunkedBodies ==
    {ChunkedBody(cs, tl) : cs \in ChunkLists, tl \in {<<>>, <<S_trailer>>}}

Message(kind, content_length, transfer_encoding, body, extra) ==
    [kind |-> kind, content_length |-> content_length,
     transfer_encoding |-> transfer_encoding, body |-> body, extra |-> extra]

Kinds == {"POST", "response"}
Extras == {<<>>, NextMessageBytes}

BMessages ==
    {Message(k, n, NoneStr, SubSeq(BodyBytes, 1, n), x) :
        k \in Kinds, n \in 0..MaxBody, x \in Extras}
    \cup {Message(k, AbsentLength, S_chunked, b, x) :
            k \in Kinds, b \in ChunkedBodies, x \in Extras}
    \cup {Message(k, 1, S_chunked, ChunkedBody(<<Chunk(<<>>, <<"x">>)>>, <<>>), x) :
            k \in Kinds, x \in Extras}
    \cup {Message(k, AbsentLength, NoneStr, <<>>, x) : k \in Kinds, x \in Extras}

NoMessage == Message("", AbsentLength, NoneStr, <<>>, <<>>)

\* read_message, lines 379-385, and read_request, lines 391-395: the body
\* of a POST is always marked pending
BodyPending(m) == IF m.kind = "POST" THEN TRUE ELSE body_pending(m)

\* read_message buffers the body itself when 0 <= body_size <= maxrdbuf
BuffersBody(m) == 0 <= m.content_length /\ m.content_length <= maxrdbuf

WaitPoints == {"read", "copy_bytes", "chunk_header", "trailer"}

\* copy_bytes(src, count) entered with `after` as the position it returns
\* to: the loop `while copied != count` is not entered when count is 0
EnterCopyBytes(count, after) ==
    /\ bcount' = count
    /\ bcopied' = 0
    /\ bret' = after
    /\ bpc' = IF count = 0 THEN after ELSE "copy_bytes"

\* read_message has read the head; the recv that brought the end of the
\* head has left the first k bytes that follow it in rdbuf.  Lines 377-385.
BReadMessage ==
    /\ bpc = "idle"
    /\ \E m \in BMessages :
         \E k \in 0..Len(m.body \o m.extra) :
            /\ bmsg' = m
            /\ brdbuf' = SubSeq(m.body \o m.extra, 1, k)
            /\ bwire' = SubSeq(m.body \o m.extra, k + 1, Len(m.body \o m.extra))
            /\ bpc' = IF BuffersBody(m) /\ m.content_length > 0 THEN "read"
                      ELSE "write_head"
            /\ bused' = IF BuffersBody(m) THEN "length" ELSE "none"
    /\ UNCHANGED <<bout, bclosed, br, bbody, bcopied, bcount, bret, bexc, exceptBody>>

\* wait(): self.rdbuf = self.conn.recv(self.maxrdbuf) when rdbuf is empty;
\* recv returns some of the bytes that have arrived
BRecv ==
    /\ bpc \in WaitPoints
    /\ brdbuf = <<>>
    /\ bwire # <<>>
    /\ \E k \in 1..Len(bwire) :
          /\ brdbuf' = SubSeq(bwire, 1, k)
          /\ bwire' = SubSeq(bwire, k + 1, Len(bwire))
    /\ UNCHANGED <<bpc, bmsg, bout, bclosed, br, bbody, bcopied, bcount, bret,
                   bexc, bused, exceptBody>>

\* wait(): recv returns "" and IOException("Connection closed.") is raised
BRecvClosed ==
    /\ bpc \in WaitPoints
    /\ brdbuf = <<>>
    /\ bwire = <<>>
    /\ bclosed
    /\ bexc' = "IOException"
    /\ bpc' = "raised"
    /\ UNCHANGED <<bmsg, bwire, brdbuf, bout, bclosed, br, bbody, bcopied, bcount,
                   bret, bused, exceptBody>>

\* the peer closes its side after the bytes it has sent
BPeerClose ==
    /\ bpc # "idle"
    /\ ~bclosed
    /\ bclosed' = TRUE
    /\ UNCHANGED <<bpc, bmsg, bwire, brdbuf, bout, br, bbody, bcopied, bcount,
                   bret, bexc, bused, exceptBody>>

\* read(n), one turn of its loop, lines 323-330: a = n - len(r), and
\* a = len(self.rdbuf) when that is larger
BRead ==
    /\ bpc = "read"
    /\ brdbuf # <<>>
    /\ LET n == bmsg.content_length
           a0 == n - Len(br)
           a == IF a0 < Len(brdbuf) THEN Len(brdbuf) ELSE a0
           r == br \o SubSeq(brdbuf, 1, Min(a, Len(brdbuf)))
       IN  /\ brdbuf' = SubSeq(brdbuf, Min(a, Len(brdbuf)) + 1, Len(brdbuf))
           /\ IF Len(r) < n
              THEN /\ br' = r
                   /\ UNCHANGED <<bpc, bbody>>
              ELSE /\ br' = <<>>
                   /\ bbody' = r
                   /\ bpc' = "write_head"
    /\ UNCHANGED <<bmsg, bwire, bout, bclosed, bcopied, bcount, bret, bexc, bused,
                   exceptBody>>

\* str(msg) is written to the destination, lines 573 and 580: the head
\* (not recorded in bout) and then msg.body
BWriteHead ==
    /\ bpc = "write_head"
    /\ bout' = bout \o bbody
    /\ bpc' = IF BodyPending(bmsg) THEN "forward_message_body" ELSE "done"
    /\ UNCHANGED <<bmsg, bwire, brdbuf, bclosed, br, bbody, bcopied, bcount, bret,
                   bexc, bused, exceptBody>>

\* forward_message_body(dst, msg, src), lines 55-67
BForwardMessageBody ==
    /\ bpc = "forward_message_body"
    /\ CASE forward_message_body(bmsg) = "copy_bytes" ->
              /\ EnterCopyBytes(bmsg.content_length, "done")
              /\ bused' = "length"
              /\ UNCHANGED bexc
         [] forward_message_body(bmsg) = "copy_chunks" ->
              /\ bpc' = "chunk_header"
              /\ bused' = "chunked"
              /\ UNCHANGED <<bexc, bcopied, bcount, bret>>
         [] forward_message_body(bmsg) = "AttributeError" ->
              /\ bpc' = "raised"
              /\ bexc' = "AttributeError"
              /\ UNCHANGED <<bused, bcopied, bcount, bret>>
         [] OTHER ->
              /\ bpc' = "done"
              /\ UNCHANGED <<bexc, bused, bcopied, bcount, bret>>
    /\ UNCHANGED <<bmsg, bwire, brdbuf, bout, bclosed, br, bbody, exceptBody>>

\* copy_bytes, one turn of its loop, lines 417-420:
\* d = src.read_some(count - copied); self.write(d); copied += len(d)
BCopyBytes ==
    /\ bpc = "copy_bytes"
    /\ brdbuf # <<>>
    /\ LET d == SubSeq(brdbuf, 1, Min(bcount - bcopied, Len(brdbuf)))
       IN  /\ brdbuf' = SubSeq(brdbuf, Len(d) + 1, Len(brdbuf))
           /\ bout' = bout \o d
           /\ bcopied' = bcopied + Len(d)
           /\ bpc' = IF bcopied + Len(d) = bcount THEN bret ELSE bpc
    /\ UNCHANGED <<bmsg, bwire, bclosed, br, bbody, bcount, bret, bexc, bused,
                   exceptBody>>

\* read_line, one turn of its loop, lines 343-350: the line when "\r\n" is
\* found in rdbuf, and otherwise the whole of rdbuf is added to r
LineFound == FindCRLF(brdbuf) > 0
LineRead == br \o SubSeq(brdbuf, 1, FindCRLF(brdbuf) - 1)
AfterLine == SubSeq(brdbuf, FindCRLF(brdbuf) + 2, Len(brdbuf))

BReadLineMore ==
    /\ bpc \in {"chunk_header", "trailer"}
    /\ brdbuf # <<>>
    /\ ~LineFound
    /\ br' = br \o brdbuf
    /\ brdbuf' = <<>>
    /\ UNCHANGED <<bpc, bmsg, bwire, bout, bclosed, bbody, bcopied, bcount, bret,
                   bexc, bused, exceptBody>>

\* copy_chunks, lines 424-430: a chunk header has been read
BChunkHeader ==
    /\ bpc = "chunk_header"
    /\ brdbuf # <<>>
    /\ LineFound
    /\ brdbuf' = AfterLine
    /\ br' = <<>>
    /\ IF ~IsHex(ChunkSizeToken(LineRead))
       THEN /\ bpc' = "raised"
            /\ bexc' = "ValueError"
            /\ UNCHANGED <<bout, bcopied, bcount, bret>>
       ELSE IF int16(ChunkSizeToken(LineRead)) <= 0
       THEN /\ bout' = bout \o <<"0">> \o CRLF
            /\ bpc' = "trailer"
            /\ UNCHANGED <<bexc, bcopied, bcount, bret>>
       ELSE /\ bout' = bout \o LineRead \o CRLF
            /\ EnterCopyBytes(int16(ChunkSizeToken(LineRead)) + 2, "chunk_header")
            /\ UNCHANGED bexc
    /\ UNCHANGED <<bmsg, bwire, bclosed, bbody, bused, exceptBody>>

\* copy_chunks, lines 433-438: a line of the trailer part has been read
BTrailer ==
    /\ bpc = "trailer"
    /\ brdbuf # <<>>
    /\ LineFound
    /\ brdbuf' = AfterLine
    /\ br' = <<>>
    /\ bout' = bout \o LineRead \o CRLF
    /\ bpc' = IF Len(LineRead) > 0 THEN "trailer" ELSE "done"
    /\ UNCHANGED <<bmsg, bwire, bclosed, bbody, bcopied, bcount, bret, bexc, bused,
                   exceptBody>>

InitBody ==
    /\ bpc = "idle"
    /\ bmsg = NoMessage
    /\ bwire = <<>>
    /\ brdbuf = <<>>
    /\ bout = <<>>
    /\ bclosed = FALSE
    /\ br = <<>>
    /\ bbody = <<>>
    /\ bcopied = 0
    /\ bcount = 0
    /\ bret = "done"
    /\ bexc = ""
    /\ bused = "none"

\* ------------------------------------------------------------------------
\* read_message: the header lines of a message, with folded lines
\* ------------------------------------------------------------------------
exceptParse == <<logvars, hvars, tvars, mvars, fvars, bvars, svars, kvars, cvars, evars, yvars, zvars>>

L_XLong_a == <<"X","-","L","o","n","g",":"," ","a">>
L_fold_b == <<" ","\t"," ","b">>
L_B_c == <<"B",":","c">>
L_fold_c == <<"\t","c">>
S_XLong == <<"X","-","L","o","n","g">>
S_a_b == <<"a"," ","b">>

\* the lines read_line can return after the start line, before the blank one
HeadLines == {L_XLong_a, L_fold_b, L_B_c, L_fold_c}

Heads == UNION {[1..n -> HeadLines] : n \in 0..MaxHeadLines}

\* HttpMessage.add_header_line(line); line.find(":") is -1 when the line
\* has no colon, and then k = line[:-1] and v = line[0:]
add_header_line(headers, line) ==
    LET p == str_find(line, ":")
    IN  IF p = 0
        THEN append(headers, strip(SubSeq(line, 1, Len(line) - 1)), strip(line))
        ELSE append(headers, strip(SubSeq(line, 1, p - 1)),
                    strip(SubSeq(line, p + 1, Len(line))))

\* `if len(prev_line): m.add_header_line(prev_line)`
Flush(headers, prev_line) ==
    IF Len(prev_line) > 0 THEN add_header_line(headers, prev_line) ELSE headers

\* line 367: prev_line += curr_line.strip(" \t")
JoinFolded(prev_line, curr_line) == prev_line \o strip(curr_line)

\* m.start_line = self.read_line(), line 360; the header lines that follow
\* are still to be read
PStartLine ==
    /\ ppc = "start_line"
    /\ \E head \in Heads :
          /\ phead' = head
          /\ plines' = Append(head, <<>>)
    /\ ppc' = "header_line"
    /\ UNCHANGED <<pprev, pheaders, exceptParse>>

\* curr_line = self.read_line() and one turn of the loop of lines 363-372,
\* or, on the blank line, the end of the loop and lines 374-375
PHeaderLine ==
    /\ ppc = "header_line"
    /\ LET curr_line == Head(plines)
       IN  IF Len(curr_line) = 0
           THEN /\ pheaders' = Flush(pheaders, pprev)
                /\ pprev' = pprev
                /\ ppc' = "parsed"
           ELSE IF curr_line[1] \in {" ", "\t"}
           THEN /\ pprev' = JoinFolded(pprev, curr_line)
                /\ UNCHANGED <<pheaders, ppc>>
           ELSE /\ pheaders' = Flush(pheaders, pprev)
                /\ pprev' = curr_line
                /\ ppc' = ppc
    /\ plines' = Tail(plines)
    /\ UNCHANGED <<phead, exceptParse>>

InitParse ==
    /\ ppc = "start_line"
    /\ phead = <<>>
    /\ plines = <<>>
    /\ pprev = <<>>
    /\ pheaders = H(<<>>, <<>>)

\* ------------------------------------------------------------------------
\* HttpInputStream.read and read_line on a stream of bytes.  The capacity
\* self.maxrdbuf (128 * 1024 in __init__) is scaled down to MaxRdbuf here:
\* the code uses it as the size handed to recv and in comparisons only.
\* ------------------------------------------------------------------------
exceptStream == <<logvars, hvars, tvars, mvars, fvars, bvars, pvars, kvars, cvars, evars, yvars, zvars>>

Repeat(c, n) == [i \in 1..n |-> c]

\* the streams read(n) is called on
ReadStreams == {SubSeq(BodyBytes, 1, m) : m \in 0..MaxStream}

\* the streams read_line is called on: a line, its CRLF, and what follows;
\* one line has a bare CR in it
LineStreams ==
    {Repeat("a", i) \o CRLF : i \in 0..MaxStream}
    \cup {Repeat("a", i) \o CRLF \o Repeat("b", j) \o CRLF :
             i \in 0..MaxStream, j \in 0..1}
    \cup {<<"a", "\r", "b">> \o CRLF}

\* the stream at the call: rdbuf holds what an earlier recv has left in it
SCall(op, stream) ==
    /\ spc = "idle"
    /\ sop' = op
    /\ sstream' = stream
    /\ \E k \in 0..Min(Len(stream), MaxRdbuf) :
          /\ srdbuf' = SubSeq(stream, 1, k)
          /\ swire' = SubSeq(stream, k + 1, Len(stream))
    /\ UNCHANGED <<sr, sresult, sexc, sclosed, exceptStream>>

\* read(n) is called: r = "", and the loop is not entered when n is 0
SCallRead ==
    \E n \in 0..MaxStream, stream \in ReadStreams :
        /\ SCall([name |-> "read", n |-> n], stream)
        /\ spc' = IF 0 < n THEN "read" ELSE "returned"

\* read_line() is called: r = ""
SCallReadLine ==
    \E stream \in LineStreams :
        /\ SCall([name |-> "read_line", n |-> 0], stream)
        /\ spc' = "read_line"

\* read_line, lines 340-341: the capacity is tested before each wait
LineTooLong == spc = "read_line" /\ Len(sr) >= MaxRdbuf

\* wait(): self.rdbuf = self.conn.recv(self.maxrdbuf) when rdbuf is empty
SRecv ==
    /\ spc \in {"read", "read_line"}
    /\ ~LineTooLong
    /\ srdbuf = <<>>
    /\ swire # <<>>
    /\ \E k \in 1..Min(Len(swire), MaxRdbuf) :
          /\ srdbuf' = SubSeq(swire, 1, k)
          /\ swire' = SubSeq(swire, k + 1, Len(swire))
    /\ UNCHANGED <<spc, sop, sstream, sr, sresult, sexc, sclosed, exceptStream>>

\* wait(): recv returns "" and IOException("Connection closed.") is raised
SRecvClosed ==
    /\ spc \in {"read", "read_line"}
    /\ ~LineTooLong
    /\ srdbuf = <<>>
    /\ swire = <<>>
    /\ sclosed
    /\ sexc' = "Connection closed."
    /\ spc' = "raised"
    /\ UNCHANGED <<sop, sstream, swire, srdbuf, sr, sresult, sclosed, exceptStream>>

\* the peer closes its side after the bytes it has sent
SPeerClose ==
    /\ spc \in {"read", "read_line"}
    /\ ~sclosed
    /\ sclosed' = TRUE
    /\ UNCHANGED <<spc, sop, sstream, swire, srdbuf, sr, sresult, sexc, exceptStream>>

\* read(n), one turn of its loop, lines 323-331
SRead ==
    /\ spc = "read"
    /\ srdbuf # <<>>
    /\ LET a0 == sop.n - Len(sr)
           a == IF a0 < Len(srdbuf) THEN Len(srdbuf) ELSE a0
           r == sr \o SubSeq(srdbuf, 1, Min(a, Len(srdbuf)))
       IN  /\ srdbuf' = SubSeq(srdbuf, Min(a, Len(srdbuf)) + 1, Len(srdbuf))
           /\ sr' = r
           /\ IF Len(r) < sop.n
              THEN UNCHANGED <<spc, sresult>>
              ELSE spc' = "returned" /\ sresult' = r
    /\ UNCHANGED <<sop, sstream, swire, sexc, sclosed, exceptStream>>

\* read_line, lines 340-341: raise IOException("read_line run out of buffer")
SReadLineFull ==
    /\ LineTooLong
    /\ sexc' = "read_line run out of buffer"
    /\ spc' = "raised"
    /\ UNCHANGED <<sop, sstream, swire, srdbuf, sr, sresult, sclosed, exceptStream>>

\* read_line, one turn of its loop, lines 343-351
SReadLine ==
    /\ spc = "read_line"
    /\ ~LineTooLong
    /\ srdbuf # <<>>
    /\ IF FindCRLF(srdbuf) > 0
       THEN /\ sr' = sr \o SubSeq(srdbuf, 1, FindCRLF(srdbuf) - 1)
            /\ srdbuf' = SubSeq(srdbuf, FindCRLF(srdbuf) + 2, Len(srdbuf))
            /\ sresult' = sr'
            /\ spc' = "returned"
       ELSE /\ sr' = sr \o srdbuf
            /\ srdbuf' = <<>>
            /\ UNCHANGED <<spc, sresult>>
    /\ UNCHANGED <<sop, sstream, swire, sexc, sclosed, exceptStream>>

InitStream ==
    /\ spc = "idle"
    /\ sop = [name |-> "", n |-> 0]
    /\ sstream = <<>>
    /\ swire = <<>>
    /\ srdbuf = <<>>
    /\ sr = <<>>
    /\ sresult = <<>>
    /\ sexc = ""
    /\ sclosed = FALSE

\* ------------------------------------------------------------------------
\* HttpHeaders.append, set and delete called on one object
\* ------------------------------------------------------------------------
exceptHeaders == <<logvars, hvars, tvars, mvars, fvars, bvars, pvars, svars, cvars, evars, yvars, zvars>>

\* HttpHeaders.find(key, start): indices count from 1 here, and 0 stands for
\* Python's -1; start > len(self.keys) is the range left empty
find_from(headers, key, start) ==
    LET hits == {i \in start..Len(headers.keys) :
                     lower(headers.keys[i]) = lower(key)}
    IN  IF hits = {} THEN 0 ELSE CHOOSE i \in hits : \A j \in hits : i <= j

\* list.pop(i) on a Python list
list_pop(list, i) == SubSeq(list, 1, i - 1) \o SubSeq(list, i + 1, Len(list))

\* HttpHeaders.delete(key, start): pops every match from start on
RECURSIVE delete(_, _, _)
delete(headers, key, start) ==
    LET i == find_from(headers, key, start)
    IN  IF i = 0
        THEN headers
        ELSE delete(H(list_pop(headers.keys, i), list_pop(headers.values, i)),
                    key, i)

\* set without the call of delete: the later matches stay
set_first_only(headers, key, value) ==
    LET i == find_from(headers, key, 1)
    IN  IF i # 0
        THEN [headers EXCEPT !.values[i] = value]
        ELSE append(headers, key, value)

\* HttpHeaders.set(key, value)
set(headers, key, value) ==
    LET i == find_from(headers, key, 1)
    IN  IF i # 0
        THEN delete([headers EXCEPT !.values[i] = value], key, i + 1)
        ELSE append(headers, key, value)

\* the keys and values the calls are made with
HeaderKeys == {<<"A">>, <<"a">>, <<"B">>}
HeaderValues == {<<"1">>, <<"2">>}

Call(name, key, value) ==
    [name |-> name, key |-> key, value |-> value, before |-> hmap]

HAppend ==
    /\ Len(hmap.keys) < MaxEntries
    /\ \E key \in HeaderKeys, value \in HeaderValues :
          /\ hmap' = append(hmap, key, value)
          /\ hlast' = Call("append", key, value)
    /\ UNCHANGED exceptHeaders

HSet ==
    /\ \E key \in HeaderKeys, value \in HeaderValues :
          /\ Len(hmap.keys) < MaxEntries \/ find_from(hmap, key, 1) # 0
          /\ hmap' = set(hmap, key, value)
          /\ hlast' = Call("set", key, value)
    /\ UNCHANGED exceptHeaders

\* delete(key): start is 0, the first index
HDelete ==
    /\ \E key \in HeaderKeys :
          /\ hmap' = delete(hmap, key, 1)
          /\ hlast' = Call("delete", key, <<>>)
    /\ UNCHANGED exceptHeaders

\* HttpHeaders.__init__: both lists are empty
InitHeaders ==
    /\ hmap = H(<<>>, <<>>)
    /\ hlast = [name |-> "", key |-> <<>>, value |-> <<>>, before |-> H(<<>>, <<>>)]

\* ------------------------------------------------------------------------
\* HttpResponse.code and HttpResponse.phrase on one status line.  Indices
\* are Python's here: they count from 0, -1 is what str.find gives when it
\* finds nothing, and a negative index counts from the end.
\* ------------------------------------------------------------------------
exceptStatus == <<logvars, hvars, tvars, mvars, fvars, bvars, pvars, svars, kvars, evars, yvars, zvars>>

\* a Python index or slice bound brought into 0..n
Clamp(i, n) == IF i < 0 THEN (IF i + n < 0 THEN 0 ELSE i + n)
               ELSE (IF i > n THEN n ELSE i)

\* str.find(c, start)
py_find(str, c, start) ==
    LET hits == {i \in Clamp(start, Len(str))..(Len(str) - 1) : str[i + 1] = c}
    IN  IF hits = {} THEN -1 ELSE CHOOSE i \in hits : \A j \in hits : i <= j

\* str[a:b] and str[a:]
py_slice(str, a, b) == SubSeq(str, Clamp(a, Len(str)) + 1, Clamp(b, Len(str)))
py_slice_from(str, a) == SubSeq(str, Clamp(a, Len(str)) + 1, Len(str))

\* str[i] is defined (it raises IndexError otherwise)
InRange(str, i) == -Len(str) <= i /\ i < Len(str)

\* str[i]
py_at(str, i) == IF i < 0 THEN str[i + Len(str) + 1] ELSE str[i + 1]

\* `++a`: Python has no increment, this is the unary plus applied twice
PlusPlus(a) == a

\* int(str) accepts a decimal numeral between whitespace, and raises
\* ValueError on anything else
IsNumeral(str) ==
    /\ strip_whitespace(str) # <<>>
    /\ \A i \in 1..Len(strip_whitespace(str)) : IsDigit(strip_whitespace(str)[i])

S_HTTP10 == <<"H", "T", "T", "P", "/", "1", ".", "0">>
S_200 == <<"2", "0", "0">>
S_204 == <<"2", "0", "4">>
S_404 == <<"4", "0", "4">>
S_503 == <<"5", "0", "3">>
S_OK == <<"O", "K">>
S_No_Content == <<"N", "o", " ", "C", "o", "n", "t", "e", "n", "t">>
S_Not_Found == <<"N", "o", "t", " ", "F", "o", "u", "n", "d">>
S_Service_Unavailable == <<"S", "e", "r", "v", "i", "c", "e", " ", "U", "n", "a", "v", "a", "i", "l", "a", "b", "l", "e">>

\* the status lines: version SP code SP phrase
Versions == {S_HTTP11, S_HTTP10}
Codes == {S_200, S_204, S_404, S_503}
Phrases == {S_OK, S_No_Content, S_Not_Found, S_Service_Unavailable}
StatusLine(version, code, phrase) == version \o <<" ">> \o code \o <<" ">> \o phrase
StatusLines == {StatusLine(v, c, p) : v \in Versions, c \in Codes, p \in Phrases}

\* lines that are not of that form: no space at all, nothing at all, and
\* a line that ends with its only space
OtherLines == {S_HTTP11, <<>>, S_HTTP11 \o <<" ">>}

NoReturn == [code |-> 0, phrase |-> <<>>]

\* code() or phrase() is called: a = self.start_line.find(" "); a = ++a
CCall ==
    /\ cpc = "idle"
    /\ \E line \in StatusLines \cup OtherLines, fn \in {"code", "phrase"} :
          /\ cline' = line
          /\ cfn' = fn
          /\ ca' = PlusPlus(py_find(line, " ", 0))
    /\ cpc' = "while"
    /\ UNCHANGED <<cret, cexc, exceptStatus>>

\* while self.start_line[a] == ' ':
CWhile ==
    /\ cpc = "while"
    /\ IF ~InRange(cline, ca)
       THEN cpc' = "raised" /\ cexc' = "IndexError"
       ELSE /\ cpc' = IF py_at(cline, ca) = " " THEN "body" ELSE "after"
            /\ cexc' = cexc
    /\ UNCHANGED <<cfn, cline, ca, cret, exceptStatus>>

\* the body of the loop: a = ++a
CBody ==
    /\ cpc = "body"
    /\ ca' = PlusPlus(ca)
    /\ cpc' = "while"
    /\ UNCHANGED <<cfn, cline, cret, cexc, exceptStatus>>

\* b = self.start_line.find(" ", a), and the return statement
CReturn ==
    /\ cpc = "after"
    /\ LET b == py_find(cline, " ", ca)
       IN  IF cfn = "code"
           THEN IF IsNumeral(py_slice(cline, ca, b))
                THEN /\ cret' = [cret EXCEPT
                                   !.code = int(strip_whitespace(py_slice(cline, ca, b)))]
                     /\ cpc' = "returned"
                     /\ cexc' = cexc
                ELSE /\ cexc' = "ValueError"
                     /\ cpc' = "raised"
                     /\ cret' = cret
           ELSE /\ cret' = [cret EXCEPT !.phrase = strip(py_slice_from(cline, b + 1))]
                /\ cpc' = "returned"
                /\ cexc' = cexc
    /\ UNCHANGED <<cfn, cline, ca, exceptStatus>>

InitStatus ==
    /\ cpc = "idle"
    /\ cfn = ""
    /\ cline = <<>>
    /\ ca = 0
    /\ cret = NoReturn
    /\ cexc = ""

\* ------------------------------------------------------------------------
\* A CONNECT request followed by bytes for the tunnel: read_request, then
\* handle_CONNECT, then SocketTunnel in the direction of the upstream (the
\* other direction and the ways a tunnel ends are those of SpecTunnel)
\* ------------------------------------------------------------------------
exceptEarly == <<logvars, hvars, tvars, mvars, fvars, bvars, pvars, svars, kvars, cvars, yvars, zvars>>

\* the bytes the client writes after the head, in this order
EarlyBytes == [i \in 1..MaxEarly |-> i]

\* the client writes its next byte; it does not wait for the 200 response
EClientWrite ==
    /\ epc # "closed"
    /\ Len(esent) < MaxEarly
    /\ esent' = Append(esent, EarlyBytes[Len(esent) + 1])
    /\ ewire' = Append(ewire, EarlyBytes[Len(esent) + 1])
    /\ UNCHANGED <<epc, erdbuf, eup, exceptEarly>>

\* read_request returns the CONNECT request: the recv that brought the blank
\* line brought some of the bytes behind it as well, and read_line has left
\* them in rdbuf
EReadRequest ==
    /\ epc = "read_request"
    /\ \E k \in 0..Len(ewire) :
          /\ erdbuf' = SubSeq(ewire, 1, k)
          /\ ewire' = SubSeq(ewire, k + 1, Len(ewire))
    /\ epc' = "handle_CONNECT"
    /\ UNCHANGED <<esent, eup, exceptEarly>>

\* handle_CONNECT: create_connection, then the 200 response and
\* SocketTunnel((self.client_conn, self.remote_conn)), or the 503 response
\* and the IOException that ends the handler
EHandleConnect ==
    /\ epc = "handle_CONNECT"
    /\ \E ok \in BOOLEAN : epc' = IF ok THEN "tunnel" ELSE "closed"
    /\ UNCHANGED <<esent, ewire, erdbuf, eup, exceptEarly>>

\* _forward(client_conn): d = src.recv(16 * 1024); dst.sendall(d)
EForward ==
    /\ epc = "tunnel"
    /\ ewire # <<>>
    /\ \E k \in 1..Len(ewire) :
          /\ eup' = eup \o SubSeq(ewire, 1, k)
          /\ ewire' = SubSeq(ewire, k + 1, Len(ewire))
    /\ UNCHANGED <<epc, esent, erdbuf, exceptEarly>>

\* the tunnel ends (`if len(x): break`, or an exception of recv or sendall)
\* and final_clean closes both sockets
ETunnelEnds ==
    /\ epc = "tunnel"
    /\ epc' = "closed"
    /\ UNCHANGED <<esent, ewire, erdbuf, eup, exceptEarly>>

InitEarly ==
    /\ epc = "read_request"
    /\ esent = <<>>
    /\ ewire = <<>>
    /\ erdbuf = <<>>
    /\ eup = <<>>

\* ------------------------------------------------------------------------
\* forward_message_body and copy_bytes for every integer Content-Length of
\* a pending message, the loop of copy_bytes taken one statement at a time
\* ------------------------------------------------------------------------
exceptCopy == <<logvars, hvars, tvars, mvars, fvars, bvars, pvars, svars, kvars, cvars, evars, zvars>>

\* the values of Content-Length: read_message leaves the body pending when
\* the value is negative or above maxrdbuf
Lengths == (-MaxNegative)..MaxBody

\* the bytes that follow the head of the message
Bytes(n) == [i \in 1..n |-> i]

\* forward_message_body(dst, msg, src), lines 56-59: the message is pending,
\* the recv that ended its head has left k bytes in rdbuf
YForwardMessageBody ==
    /\ ypc = "idle"
    /\ \E length \in Lengths, n \in 0..MaxStream :
         \E k \in 0..n :
            /\ ycount' = length
            /\ yrdbuf' = SubSeq(Bytes(n), 1, k)
            /\ ywire' = SubSeq(Bytes(n), k + 1, n)
            /\ ypc' = IF length # AbsentLength THEN "while" ELSE "encoding"
    /\ UNCHANGED <<ycopied, yout, yclosed, yexc, exceptCopy>>

\* copy_bytes, line 417: while copied != count
YWhile ==
    /\ ypc = "while"
    /\ ypc' = IF ycopied # ycount THEN "read_some" ELSE "returned"
    /\ UNCHANGED <<ycount, ycopied, yrdbuf, ywire, yout, yclosed, yexc, exceptCopy>>

\* wait(): self.rdbuf = self.conn.recv(self.maxrdbuf) when rdbuf is empty
YRecv ==
    /\ ypc = "read_some"
    /\ yrdbuf = <<>>
    /\ ywire # <<>>
    /\ \E k \in 1..Len(ywire) :
          /\ yrdbuf' = SubSeq(ywire, 1, k)
          /\ ywire' = SubSeq(ywire, k + 1, Len(ywire))
    /\ UNCHANGED <<ypc, ycount, ycopied, yout, yclosed, yexc, exceptCopy>>

\* wait(): recv returns "" and IOException("Connection closed.") is raised
YRecvClosed ==
    /\ ypc = "read_some"
    /\ yrdbuf = <<>>
    /\ ywire = <<>>
    /\ yclosed
    /\ yexc' = "IOException"
    /\ ypc' = "raised"
    /\ UNCHANGED <<ycount, ycopied, yrdbuf, ywire, yout, yclosed, exceptCopy>>

\* the peer closes its side after the bytes it has sent
YPeerClose ==
    /\ ypc \in {"while", "read_some"}
    /\ ~yclosed
    /\ yclosed' = TRUE
    /\ UNCHANGED <<ypc, ycount, ycopied, yrdbuf, ywire, yout, yexc, exceptCopy>>

\* d = src.read_some(count - copied): r = self.rdbuf[:max];
\* self.rdbuf = self.rdbuf[max:]; then self.write(d); copied += len(d)
YReadSome ==
    /\ ypc = "read_some"
    /\ yrdbuf # <<>>
    /\ LET d == py_slice(yrdbuf, 0, ycount - ycopied)
       IN  /\ yrdbuf' = py_slice_from(yrdbuf, ycount - ycopied)
           /\ yout' = yout \o d
           /\ ycopied' = ycopied + Len(d)
    /\ ypc' = "while"
    /\ UNCHANGED <<ycount, ywire, yclosed, yexc, exceptCopy>>

\* lines 63-67 with no Content-Length: the Transfer-Encoding decides
\* (SpecBody has that part)
YEncoding ==
    /\ ypc = "encoding"
    /\ ypc' = "returned"
    /\ UNCHANGED <<ycount, ycopied, yrdbuf, ywire, yout, yclosed, yexc, exceptCopy>>

InitCopy ==
    /\ ypc = "idle"
    /\ ycount = 0
    /\ ycopied = 0
    /\ yrdbuf = <<>>
    /\ ywire = <<>>
    /\ yout = <<>>
    /\ yclosed = FALSE
    /\ yexc = ""

\* ------------------------------------------------------------------------
\* The response to a HEAD or a GET request: read_response and the lines of
\* handle_request that forward the response.  The upstream sends the body
\* of Content-Length bytes behind the head of the response to a GET, and
\* nothing behind the head of the response to a HEAD.
\* ------------------------------------------------------------------------
exceptHead == <<logvars, hvars, tvars, mvars, fvars, bvars, pvars, svars, kvars, cvars, evars, yvars>>

\* the bytes the upstream sends behind the head
SentBody(method, length) == IF method = "HEAD" THEN <<>> ELSE Bytes(length)

\* read_response reads the head (read_message, lines 360-375), with k bytes
\* of what follows already in rdbuf; then lines 378-382: body_size is the
\* Content-Length and read(body_size) is called when it is in 0..maxrdbuf
ZReadResponse ==
    /\ zpc = "read_response"
    /\ \E method \in {"HEAD", "GET"}, length \in 0..MaxStream :
         \E k \in 0..Len(SentBody(method, length)) :
            /\ zmethod' = method
            /\ zlen' = length
            /\ zrdbuf' = SubSeq(SentBody(method, length), 1, k)
            /\ zwire' = SubSeq(SentBody(method, length), k + 1,
                               Len(SentBody(method, length)))
            /\ zpc' = IF 0 <= length /\ length <= maxrdbuf
                      THEN (IF 0 < length THEN "read" ELSE "write_head")
                      ELSE "write_head"
    /\ UNCHANGED <<zbody, zclosed, zhead, zexc, exceptHead>>

\* wait(): self.rdbuf = self.conn.recv(self.maxrdbuf) when rdbuf is empty
ZRecv ==
    /\ zpc = "read"
    /\ zrdbuf = <<>>
    /\ zwire # <<>>
    /\ \E k \in 1..Len(zwire) :
          /\ zrdbuf' = SubSeq(zwire, 1, k)
          /\ zwire' = SubSeq(zwire, k + 1, Len(zwire))
    /\ UNCHANGED <<zpc, zmethod, zlen, zbody, zclosed, zhead, zexc, exceptHead>>

\* wait(): recv returns "" and IOException("Connection closed.") is raised;
\* run() catches it and the handler ends
ZRecvClosed ==
    /\ zpc = "read"
    /\ zrdbuf = <<>>
    /\ zwire = <<>>
    /\ zclosed
    /\ zexc' = "IOException"
    /\ zpc' = "raised"
    /\ UNCHANGED <<zmethod, zlen, zwire, zrdbuf, zbody, zclosed, zhead, exceptHead>>

\* the upstream closes its side after the bytes it has sent
ZPeerClose ==
    /\ zpc \in {"read", "write_head"}
    /\ ~zclosed
    /\ zclosed' = TRUE
    /\ UNCHANGED <<zpc, zmethod, zlen, zwire, zrdbuf, zbody, zhead, zexc, exceptHead>>

\* read(body_size), one turn of its loop, lines 323-331; body_pending is
\* False when it returns
ZRead ==
    /\ zpc = "read"
    /\ zrdbuf # <<>>
    /\ LET a0 == zlen - Len(zbody)
           a == IF a0 < Len(zrdbuf) THEN Len(zrdbuf) ELSE a0
       IN  /\ zbody' = zbody \o SubSeq(zrdbuf, 1, Min(a, Len(zrdbuf)))
           /\ zrdbuf' = SubSeq(zrdbuf, Min(a, Len(zrdbuf)) + 1, Len(zrdbuf))
    /\ zpc' = IF Len(zbody') < zlen THEN "read" ELSE "write_head"
    /\ UNCHANGED <<zmethod, zlen, zwire, zclosed, zhead, zexc, exceptHead>>

\* handle_request, lines 580-582: self.client_output.write(str(resp)), which
\* raises IOException when the client is gone; the body is not pending and
\* handle_request returns to the loop of run()
ZWriteResponse ==
    /\ zpc = "write_head"
    /\ \E ok \in BOOLEAN :
          IF ok
          THEN zhead' = TRUE /\ zpc' = "loop" /\ zexc' = zexc
          ELSE zhead' = zhead /\ zpc' = "raised" /\ zexc' = "IOException"
    /\ UNCHANGED <<zmethod, zlen, zwire, zrdbuf, zbody, zclosed, exceptHead>>

InitHead ==
    /\ zpc = "read_response"
    /\ zmethod = ""
    /\ zlen = 0
    /\ zwire = <<>>
    /\ zrdbuf = <<>>
    /\ zbody = <<>>
    /\ zclosed = FALSE
    /\ zhead = FALSE
    /\ zexc = ""

\* ------------------------------------------------------------------------
\* Specifications
\* ------------------------------------------------------------------------
Init ==
    /\ log_lock = TRUE
    /\ lpc = [t \in Threads |-> "idle"]
    /\ llevel = [t \in Threads |-> 3]
    /\ stdout = <<>>
    /\ pc = "read_request"
    /\ keep_alive = TRUE
    /\ req = NoRequest
    /\ resp = NoResponse
    /\ retry_count = 0
    /\ remote_addr = NoAddr
    /\ remote_conn = None
    /\ remote_input = None
    /\ remote_output = None
    /\ client_open = TRUE
    /\ socks = <<>>
    /\ exc = NoExc
    /\ sent = 0
    /\ rdbuf = 0
    /\ nread = 0
    /\ nresp = 0
    /\ obs = [nconnect |-> 0, wrote |-> {}, targets |-> {}, wfail |-> FALSE,
              nup |-> 0, nupresp |-> 0, synth |-> <<>>, cfail |-> FALSE,
              tunnel_peer |-> None, rounds |-> 0]
    /\ sendlog = <<>>
    /\ InitTunnel
    /\ InitMain
    /\ InitForward
    /\ InitBody
    /\ InitParse
    /\ InitStream
    /\ InitHeaders
    /\ InitStatus
    /\ InitEarly
    /\ InitCopy
    /\ InitHead

\* one handler thread serving one client connection
Next ==
    \/ ClientSend
    \/ ReadRequest
    \/ ReadRequestFails
    \/ HandleRequest
    \/ SendLoop
    \/ SendConnect
    \/ SendWrite
    \/ SendFailed
    \/ RequestBody
    \/ ReadResponse
    \/ ReadResponseFails
    \/ WriteResponse
    \/ ResponseBody
    \/ LoopTest
    \/ HandleConnect
    \/ TunnelConnect
    \/ Write503
    \/ Write200
    \/ TunnelForward
    \/ TunnelEnds
    \/ Except
    \/ FinalClean

Spec == Init /\ [][Next]_vars

\* the handler threads inside log()
NextLog ==
    \E t \in Threads :
        \/ LogCall(t)
        \/ LogLevelCheck(t)
        \/ LogWait(t)
        \/ LogPrint(t)
        \/ LogSet(t)

SpecLog == Init /\ [][NextLog]_vars

\* one tunnel and its two peers
NextTunnel ==
    \/ TunnelThread
    \/ \E i \in Peers :
          \/ PeerSend(i)
          \/ PeerShutdown(i)
          \/ PeerUrgent(i)
          \/ PeerReset(i)

SpecTunnel == Init /\ [][NextTunnel]_vars

\* the tunnel's thread keeps running while it can take a step; nothing is
\* assumed of the peers
SpecTunnelFair == SpecTunnel /\ WF_vars(TunnelThread)

\* the main thread: the supervisor and the server it runs
NextMain ==
    \/ MainStartServer
    \/ RunSocket
    \/ RunBind
    \/ RunListen
    \/ RunAccept
    \/ RunExcept
    \/ RunFinally
    \/ MainCheck
    \/ MainSleep

SpecMain == Init /\ [][NextMain]_vars

\* the rewrite of one request by handle_request
NextForward ==
    \/ FwdReadRequest
    \/ FwdHandleRequest

SpecForward == Init /\ [][NextForward]_vars

\* the body of one message, read from its source and written on
NextBody ==
    \/ BReadMessage
    \/ BRecv
    \/ BRecvClosed
    \/ BPeerClose
    \/ BRead
    \/ BWriteHead
    \/ BForwardMessageBody
    \/ BCopyBytes
    \/ BReadLineMore
    \/ BChunkHeader
    \/ BTrailer

SpecBody == Init /\ [][NextBody]_vars

\* read_message reading the head of one message line by line
NextParse ==
    \/ PStartLine
    \/ PHeaderLine

SpecParse == Init /\ [][NextParse]_vars

\* one call of read or of read_line, and the peer of the stream
NextStream ==
    \/ SCallRead
    \/ SCallReadLine
    \/ SRecv
    \/ SRecvClosed
    \/ SPeerClose
    \/ SRead
    \/ SReadLineFull
    \/ SReadLine

SpecStream == Init /\ [][NextStream]_vars

\* any sequence of append, set and delete on one HttpHeaders
NextHeaders ==
    \/ HAppend
    \/ HSet
    \/ HDelete

SpecHeaders == Init /\ [][NextHeaders]_vars

\* one call of code() or phrase(); the thread that makes the call keeps
\* running, so a step that is enabled is taken in the end
NextStatus ==
    \/ CCall
    \/ CWhile
    \/ CBody
    \/ CReturn

SpecStatus == Init /\ [][NextStatus]_vars /\ WF_vars(NextStatus)

\* a client, its CONNECT request and the bytes it sends behind it
NextEarly ==
    \/ EClientWrite
    \/ EReadRequest
    \/ EHandleConnect
    \/ EForward
    \/ ETunnelEnds

SpecEarly == Init /\ [][NextEarly]_vars

\* one call of forward_message_body; the thread that runs it takes every
\* step it can take, the peer sends and closes when it likes
NextCopy ==
    \/ YForwardMessageBody
    \/ YWhile
    \/ YRecv
    \/ YRecvClosed
    \/ YPeerClose
    \/ YReadSome
    \/ YEncoding

SpecCopy ==
    Init /\ [][NextCopy]_vars /\ WF_vars(YWhile) /\ WF_vars(YReadSome)

\* the handler between send_with_retry and the end of handle_request, and
\* the upstream that answers
NextHead ==
    \/ ZReadResponse
    \/ ZRecv
    \/ ZRecvClosed
    \/ ZPeerClose
    \/ ZRead
    \/ ZWriteResponse

SpecHead == Init /\ [][NextHead]_vars

\* ------------------------------------------------------------------------
\* Properties
\* ------------------------------------------------------------------------
InLogCritical(t) == lpc[t] \in {"print", "set"}

\* C1: at most one thread at a time is between the guard wait and the guard
\* release of log(), so two log lines are never written at the same time.
C1_LogMutualExclusion ==
    Cardinality({t \in Threads : InLogCritical(t)}) <= 1

SlotEmpty ==
    /\ remote_addr = NoAddr
    /\ remote_conn = None
    /\ remote_input = None
    /\ remote_output = None

\* C2: once run() has returned, on whatever path, the client socket is
\* closed and no upstream socket the handler opened is still open.
C2_AllClosedOnReturn ==
    pc = "done" => (~client_open /\ OpenSocks = {})

\* C2 witness: run() has returned after an exception, having opened two
\* upstream sockets
C2_Witness ==
    /\ pc = "done"
    /\ Len(socks) >= 2
    /\ exc.type # ""
    /\ ~client_open

IOFailures == {"connect_fail", "write_fail"}
ConnectEvents == {"connect_ok", "connect_fail"}

\* C3: in send_with_retry, whenever an attempt fails with an I/O failure
\* and fewer than 3 attempts have been made, the slot is left empty and the
\* next attempt opens a new connection before it writes.
C3_FailedAttemptReconnects ==
    /\ (pc = "send_loop" /\ retry_count \in 1..(retries - 1)) => SlotEmpty
    /\ \A i \in 1..(Len(sendlog) - 1) :
          sendlog[i] \in IOFailures => sendlog[i + 1] \in ConnectEvents

\* C4: when all 3 attempts of send_with_retry fail, the call ends with the
\* IOException "Can't connect to remote server" and with no other error.
C4_ExhaustedRaisesIOException ==
    exc.by = "send_with_retry" => exc.type = "IOException"

Count(seq, events) == Cardinality({i \in 1..Len(seq) : seq[i] \in events})

InSend == pc \in {"send_loop", "connect", "write", "send_failed"}

\* C5: when send_with_retry reuses the slot and the first write fails, it
\* closes the slot, reconnects and retries the write, and the send succeeds
\* if that connect and write succeed; one send never makes more than 3
\* connect attempts.
C5_RetryAfterStaleReuse ==
    /\ Count(sendlog, ConnectEvents) <= 3
    /\ (Len(sendlog) >= 1 /\ sendlog[1] = "write_fail") =>
          /\ (Len(sendlog) = 1 /\ pc = "send_loop") =>
                (SlotEmpty /\ OpenSocks = {})
          /\ Len(sendlog) >= 2 => sendlog[2] \in ConnectEvents
          /\ (Len(sendlog) >= 3 /\ sendlog[2] = "connect_ok"
                /\ sendlog[3] = "write_ok") =>
                /\ Len(sendlog) = 3
                /\ ~InSend
                /\ exc.by # "send_with_retry"
                /\ retry_count = 1

\* C5 witness: a send on a reused slot whose first write failed and whose
\* second attempt connected and wrote
C5_Witness ==
    /\ sendlog = <<"write_fail", "connect_ok", "write_ok">>
    /\ pc = "read_response"
    /\ nread = 2

\* C6: for successful non-CONNECT requests of one client connection that
\* all target the same (host, port), with no upstream write failure, exactly
\* one upstream connect is made and every request is written to that socket.
C6_OneConnectPerTarget ==
    (/\ req.method # "CONNECT"
     /\ Cardinality(obs.targets) = 1
     /\ ~obs.wfail
     /\ obs.wrote # {})
    => (obs.nconnect = 1 /\ Cardinality(obs.wrote) = 1)

\* C6 witness: two requests have been written upstream after one connect
C6_Witness ==
    /\ obs.nup = 2
    /\ obs.nconnect = 1
    /\ ~obs.wfail
    /\ Cardinality(obs.targets) = 1
    /\ pc = "loop"

\* C7: at most one upstream socket of the handler is open at any time, and
\* the previous socket is closed before a new connection is opened.
C7_AtMostOneUpstream ==
    /\ Cardinality(OpenSocks) <= 1
    /\ pc \in {"connect", "tunnel_connect"} => OpenSocks = {}

\* C7 witness: the handler is about to connect to a target other than the
\* one its previous socket was connected to
C7_Witness ==
    /\ pc \in {"connect", "tunnel_connect"}
    /\ Len(socks) >= 1
    /\ socks[Len(socks)].addr # <<req.host, req.port>>
    /\ retry_count = 0

\* a send that has used all of its connect attempts
ThreeConnectsReached == Count(sendlog, ConnectEvents) = 3

\* the request carries a header named Proxy-Connection, in any case
HasProxyConnection(r) ==
    \E i \in 1..Len(r.headers.keys) :
        lower(r.headers.keys[i]) = S_proxy_connection

\* some Proxy-Connection header of the request is "keep-alive", in any case
SaysKeepAlive(r) ==
    \E i \in 1..Len(r.headers.keys) :
        /\ lower(r.headers.keys[i]) = S_proxy_connection
        /\ lower(r.headers.values[i]) = S_keep_alive

KeepAliveExpected(r) == ~HasProxyConnection(r) \/ SaysKeepAlive(r)

\* C8: after a successfully forwarded non-CONNECT exchange the handler
\* reads another request if and only if the request had no Proxy-Connection
\* header or its lowercased value is "keep-alive"; otherwise it leaves the
\* loop for the cleanup that closes the connection.
C8_KeepAliveDecidesLoop ==
    [][(pc = "loop" /\ pc' # "loop") =>
          \/ (KeepAliveExpected(req) /\ pc' = "read_request")
          \/ (~KeepAliveExpected(req) /\ pc' = "finally" /\ exc' = NoExc)]_vars

\* C8 witness: an exchange has been forwarded for a request whose header is
\* spelled proxy-connection: Keep-Alive, and the loop goes on
C8_Witness ==
    /\ pc = "read_request"
    /\ nresp = 1
    /\ req.headers = H(<<S_proxy_connection>>, <<S_Keep_Alive>>)
    /\ client_open

\* the requests of which at least one byte has left the client socket
Received == nread + rdbuf
\* the requests written upstream whose response has not been read
Outstanding == obs.nup - obs.nupresp

WellFormedConnect ==
    req.method = "CONNECT" /\ ~BadTarget(req.host, req.port)

\* handle_CONNECT is past the writing of its response
ConnectAnswered == pc \in {"tunnel", "except", "finally", "done"}

\* SocketTunnel.run has been entered
TunnelEntered == pc = "tunnel" \/ exc.by = "SocketTunnel"

\* the 200 was written while an upstream connection to the target existed
PeerConnected ==
    /\ obs.tunnel_peer # None
    /\ socks[obs.tunnel_peer].addr = <<req.host, req.port>>
    /\ pc = "tunnel" => (remote_conn = obs.tunnel_peer
                         /\ obs.tunnel_peer \in OpenSocks)

\* C10 as stated: for a well-formed CONNECT exactly one synthetic response
\* is written; the 200 only after the upstream connection exists, followed
\* by the tunnel; the 503 if and only if the connect failed, after which the
\* handler terminates without entering the tunnel.
C10_ExactlyOneSynthetic ==
    WellFormedConnect =>
        /\ Len(obs.synth) <= 1
        /\ ConnectAnswered => Len(obs.synth) = 1
        /\ obs.synth = <<"200">> => (PeerConnected /\ TunnelEntered)
        /\ ConnectAnswered => (obs.synth = <<"503">> <=> obs.cfail)
        /\ obs.cfail => ~TunnelEntered

\* the client socket failed under handle_CONNECT: getpeername or the write
\* of the synthetic response raised
ClientSocketFailed == exc.by \in {"write", "getpeername"}

\* C10 amended: for a well-formed CONNECT at most one synthetic response is
\* written, and exactly one unless the client socket fails; the 200 only
\* after the upstream connection exists, followed by the tunnel; the 503
\* only if the connect failed, and always then unless its write fails; after
\* a failed connect the handler terminates without entering the tunnel.
C10_AtMostOneSynthetic ==
    WellFormedConnect =>
        /\ Len(obs.synth) <= 1
        /\ (ConnectAnswered /\ ~ClientSocketFailed) => Len(obs.synth) = 1
        /\ obs.synth = <<"200">> =>
              (PeerConnected /\ TunnelEntered /\ ~obs.cfail)
        /\ obs.synth = <<"503">> => obs.cfail
        /\ (obs.cfail /\ ConnectAnswered /\ ~ClientSocketFailed) =>
              obs.synth = <<"503">>
        /\ obs.cfail =>
              (~TunnelEntered /\ pc \in {"write_503", "except", "finally", "done"})

\* C10 witness: the connect of a CONNECT failed, the 503 was written and the
\* handler has terminated
C10_Witness ==
    /\ WellFormedConnect
    /\ obs.cfail
    /\ obs.synth = <<"503">>
    /\ pc = "done"

\* C11: once either peer of a tunnel reaches EOF (its recv returns zero
\* bytes) or signals an exceptional condition, SocketTunnel.run eventually
\* terminates, and both sockets are then closed.
C11_TunnelTerminates ==
    (tseen.eof \/ \E i \in Peers : txc[i])
        ~> (tpc = "closed" /\ \A i \in Peers : ~topen[i])

\* the half of C11 about exceptional conditions alone
TunnelEndsOnExceptional ==
    (\E i \in Peers : txc[i]) ~> (tpc = "closed" /\ \A i \in Peers : ~topen[i])

\* the waits of a supervisor that gave up: 3, 6, ..., 30
FullRamp == [k \in 1..10 |-> restart_time_step * k]

\* C12: when every run of the server ends in a fault, the supervisor has
\* slept 3, 6, ..., 30 seconds before its successive restarts when it
\* terminates, and it terminates with exit code 1.
C12_RampThenExit ==
    exit_code # Running => (slept = FullRamp /\ exit_code = 1)

\* the supervisor's own arithmetic, for the runs whose fault run() catches
\* and cleans up after
RampWhenRunReturns ==
    /\ mpc = "exited" => (slept = FullRamp /\ exit_code = 1)
    /\ \A k \in 1..Len(slept) : slept[k] = restart_time_step * k /\ slept[k] <= 30
RampReached == mpc = "exited"

\* the request has been rewritten and handed to send_with_retry
Forwarded == fpc = "send_with_retry"

\* the header fields of a block as a sequence of <<name, value>> pairs, and
\* the ones among them that are not proxy specific, in their order
Fields(headers) == [i \in 1..Len(headers.keys) |-> <<headers.keys[i], headers.values[i]>>]
IsProxyField(field) == startswith(lower(field[1]), S_proxy_)
NotProxyField(field) == ~IsProxyField(field)
NonProxyFields(headers) == SelectSeq(Fields(headers), NotProxyField)
LacksHost(headers) == \A i \in 1..Len(headers.keys) : lower(headers.keys[i]) # S_host

RECURSIVE FieldLines(_)
FieldLines(fields) ==
    IF fields = <<>> THEN <<>>
    ELSE Head(fields)[1] \o <<":", " ">> \o Head(fields)[2] \o CRLF
         \o FieldLines(Tail(fields))

RequestLine(r) ==
    r.method \o <<" ">> \o r.url.path
    \o (IF r.url.query = <<>> THEN <<>> ELSE <<"?">> \o r.url.query)
    \o <<" ">> \o S_HTTP11 \o CRLF

HostLine(r) == S_Host \o <<":", " ">> \o r.url.authority \o CRLF

\* the request of the scenario: GET http://example.com/a?b=1 with
\* Proxy-Connection: keep-alive and User-Agent: t
ScenarioRequest ==
    [method |-> S_GET, url |-> AbsoluteForm(S_example_com, S_path_a, S_query_b1),
     headers |-> H(<<S_ProxyConnection, S_UserAgent>>, <<S_keep_alive, S_t>>)]

ScenarioHostLast ==
    <<"G","E","T"," ","/","a","?","b","=","1"," ","H","T","T","P","/","1",
    ".","1","\r","\n","U","s","e","r","-","A","g","e","n","t",":"," ","t",
    "\r","\n","H","o","s","t",":"," ","e","x","a","m","p","l","e",".","c",
    "o","m","\r","\n","\r","\n">>

ScenarioHostFirst ==
    <<"G","E","T"," ","/","a","?","b","=","1"," ","H","T","T","P","/","1",
    ".","1","\r","\n","H","o","s","t",":"," ","e","x","a","m","p","l","e",
    ".","c","o","m","\r","\n","U","s","e","r","-","A","g","e","n","t",":",
    " ","t","\r","\n","\r","\n">>

\* C13: for an absolute-form request without a Host header the bytes sent
\* upstream are the rewritten request line, the non-proxy headers in their
\* original order, the synthesized Host header last, and the blank line; for
\* the scenario request they are the request line, User-Agent: t,
\* Host: example.com and the blank line.
C13_SynthesizedHostLast ==
    (Forwarded /\ frequest.url.form = "absolute" /\ LacksHost(frequest.headers))
        => /\ fwd.data = RequestLine(frequest)
                         \o FieldLines(NonProxyFields(frequest.headers))
                         \o HostLine(frequest) \o CRLF
           /\ frequest = ScenarioRequest => fwd.data = ScenarioHostLast

\* C13 as the code has it: the synthesized Host header comes first, before
\* the non-proxy headers in their original order.
C13_SynthesizedHostFirst ==
    (Forwarded /\ frequest.url.form = "absolute" /\ LacksHost(frequest.headers))
        => /\ fwd.data = RequestLine(frequest) \o HostLine(frequest)
                         \o FieldLines(NonProxyFields(frequest.headers)) \o CRLF
           /\ frequest = ScenarioRequest => fwd.data = ScenarioHostFirst

C13_Witness == Forwarded /\ frequest = ScenarioRequest /\ fwd.data = ScenarioHostFirst

HostCount(headers) ==
    Cardinality({i \in 1..Len(headers.keys) : lower(headers.keys[i]) = S_host})

\* C14: in every forwarded request no header whose lowercased name begins
\* with "proxy-" is present, and every other header of the client request
\* is present with its name and value unchanged, in the same relative
\* order (the headers of the forwarded request other than a synthesized
\* Host are exactly those).
C14_ProxyHeadersDropped ==
    Forwarded =>
        /\ \A i \in 1..Len(fwd.headers.keys) :
               ~startswith(lower(fwd.headers.keys[i]), S_proxy_)
        /\ LET sent_fields == Fields(fwd.headers)
               kept == IF LacksHost(frequest.headers) THEN Tail(sent_fields)
                       ELSE sent_fields
           IN  kept = NonProxyFields(frequest.headers)

C14_Witness ==
    /\ Forwarded
    /\ frequest.headers.keys = <<S_UserAgent, S_ProxyConnection>>
    /\ fwd.headers.keys = <<S_Host, S_UserAgent>>

\* C15: when the incoming request has no Host header under case-insensitive
\* lookup, the forwarded request has exactly one Host header and its value
\* is the authority of the request URL; when it has one, none is added.
C15_HostSynthesizedOnce ==
    Forwarded =>
        IF LacksHost(frequest.headers)
        THEN /\ HostCount(fwd.headers) = 1
             /\ \A i \in 1..Len(fwd.headers.keys) :
                    lower(fwd.headers.keys[i]) = S_host
                        => fwd.headers.values[i] = frequest.url.authority
        ELSE HostCount(fwd.headers) = HostCount(frequest.headers)

\* a request that brings its own Host header (in lower case) keeps it alone
HostKeptReached ==
    /\ Forwarded
    /\ frequest.headers.keys = <<S_host>>
    /\ fwd.headers.keys = <<S_host>>

C15_WitnessSynthesized ==
    /\ Forwarded
    /\ frequest.headers.keys = <<S_UserAgent>>
    /\ frequest.url.authority = S_a_example_8080
    /\ fwd.headers = H(<<S_Host, S_UserAgent>>, <<S_a_example_8080, S_t>>)

\* C16: for a request whose target is in origin form, the (host, port) used
\* for the upstream connection is taken from the request's Host header.
C16_OriginFormUsesHostHeader ==
    (Forwarded /\ frequest.url.form = "origin" /\ ~LacksHost(frequest.headers))
        => LET value == get(frequest.headers, S_Host)
           IN  /\ fwd.host = HostOf(value)
               /\ fwd.port = PortOf(value)

\* an absolute-form target gives the upstream address its authority names
AbsoluteFormUsesAuthority ==
    (Forwarded /\ frequest.url.form = "absolute")
        => /\ fwd.host = HostOf(frequest.url.authority)
           /\ fwd.port = PortOf(frequest.url.authority)
           /\ frequest.url.authority = S_a_example_8080
                  => fwd.host = S_a_example /\ fwd.port = 8080

IsPrefix(a, b) == Len(a) <= Len(b) /\ a = SubSeq(b, 1, Len(a))

\* the bytes of the source that the stream has not consumed
Unconsumed == brdbuf \o bwire

LengthFramed(m) == m.content_length # AbsentLength /\ m.transfer_encoding = NoneStr
ChunkedFramed(m) == m.content_length = AbsentLength /\ m.transfer_encoding = S_chunked
DoublyFramed(m) == m.content_length # AbsentLength /\ m.transfer_encoding = S_chunked

\* C17: for a POST request and for a response framed by Content-Length: L,
\* exactly the L body bytes are written to the destination, each once, and
\* the source is left at the first byte after the body: no byte past the
\* body is consumed into the body or forwarded.
C17_ExactlyContentLength ==
    LengthFramed(bmsg) =>
        /\ IsPrefix(bout, bmsg.body)
        /\ IsPrefix(bbody, bmsg.body)
        /\ bpc = "done" => (bout = bmsg.body /\ Unconsumed = bmsg.extra)

\* what does hold of a body framed by Content-Length when nothing follows
\* it on the connection and it is a response
LengthFramedResponseAlone ==
    (LengthFramed(bmsg) /\ bmsg.kind = "response" /\ bmsg.extra = <<>>)
        => /\ IsPrefix(bout, bmsg.body)
           /\ bpc = "done" => (bout = bmsg.body /\ Unconsumed = <<>>)

\* C18: for any valid chunked body B, copy_chunks writes exactly the bytes
\* of B in order, each chunk header verbatim, and consumes exactly B.
C18_ChunkedBodyVerbatim ==
    ChunkedFramed(bmsg) =>
        /\ IsPrefix(bout, bmsg.body)
        /\ bexc # "ValueError"
        /\ bpc = "done" => (bout = bmsg.body /\ Unconsumed = bmsg.extra)

\* C19: a message with both a Content-Length and a Transfer-Encoding
\* ending with "chunked" has its body read and forwarded with chunked
\* framing, not by Content-Length.
C19_ChunkedWins ==
    (DoublyFramed(bmsg) /\ bused # "none") => bused = "chunked"

NeitherFraming(msg) ==
    msg.content_length = AbsentLength /\ msg.transfer_encoding = NoneStr

\* C20: body transfer invoked on a pending message with neither a
\* Content-Length nor a Transfer-Encoding header transfers nothing and
\* returns without raising, so the handler goes on with the exchange: the
\* step that ends the transfer of a request body leads to reading the
\* response, the one that ends a response body to the keep-alive loop.
C20_NoFramingNoTransfer ==
    [][ /\ (pc = "request_body" /\ NeitherFraming(req) /\ pc' # pc)
            => (pc' = "read_response" /\ exc' = NoExc)
        /\ (pc = "response_body" /\ NeitherFraming(resp) /\ pc' # pc)
            => (pc' = "loop" /\ exc' = NoExc) ]_vars

\* a Transfer-Encoding that does not end with "chunked" is the framing body
\* transfer does return on without a copy
UnknownEncodingNoTransfer ==
    [][ (pc = "response_body" /\ resp.content_length = AbsentLength
             /\ resp.transfer_encoding = S_gzip /\ pc' # pc)
            => (pc' = "loop" /\ exc' = NoExc) ]_vars

IsFold(line) == line[1] \in {" ", "\t"}

\* the logical header lines of a head: each folded line is joined, trimmed,
\* to the line before it with a single space
RECURSIVE Unfold(_, _)
Unfold(done, rest) ==
    IF rest = <<>> THEN done
    ELSE IF IsFold(Head(rest)) /\ done # <<>>
         THEN Unfold([done EXCEPT ![Len(done)] = @ \o <<" ">> \o strip(Head(rest))],
                     Tail(rest))
         ELSE Unfold(Append(done, Head(rest)), Tail(rest))

\* C21: a continuation line (one starting with SP or TAB) is joined, trimmed,
\* to the previous logical header with a single space, so X-Long: a CRLF
\* SP TAB SP b CRLF is stored as X-Long with the value "a b"; each logical
\* header is emitted exactly once.
C21_FoldedWithSingleSpace ==
    (ppc = "parsed" /\ phead # <<>> /\ ~IsFold(phead[1])) =>
        /\ Len(pheaders.keys) = Len(Unfold(<<>>, phead))
        /\ \A i \in 1..Len(pheaders.keys) :
               LET line == Unfold(<<>>, phead)[i]
               IN  /\ pheaders.keys[i] = strip(SubSeq(line, 1, str_find(line, ":") - 1))
                   /\ pheaders.values[i] =
                          strip(SubSeq(line, str_find(line, ":") + 1, Len(line)))
        /\ phead = <<L_XLong_a, L_fold_b>> => pheaders = H(<<S_XLong>>, <<S_a_b>>)

\* each logical header is emitted exactly once, whatever its value
LogicalHeadersOnce ==
    (ppc = "parsed" /\ phead # <<>> /\ ~IsFold(phead[1])) =>
        Len(pheaders.keys) = Len(Unfold(<<>>, phead))

\* the bytes of the stream that the call has left in it
Remaining == srdbuf \o swire

\* C22: for every n >= 0 and every split of the bytes over recv calls,
\* read(n) either fails or returns exactly the next n bytes, and leaves
\* every later byte in the stream.
C22_ReadExactlyN ==
    (sop.name = "read" /\ spc = "returned") =>
        /\ sresult = SubSeq(sstream, 1, sop.n)
        /\ Remaining = SubSeq(sstream, sop.n + 1, Len(sstream))

\* read(n) never returns fewer than n bytes, and loses none
ReadAtLeastN ==
    (sop.name = "read" /\ spc = "returned") =>
        /\ Len(sresult) >= sop.n
        /\ sresult \o Remaining = sstream

\* C23: for every split of the bytes over recv calls, a split between the
\* CR and the LF included, read_line returns exactly the bytes before the
\* first CRLF of the stream and leaves the stream right after that CRLF.
C23_ReadLineToFirstCRLF ==
    (sop.name = "read_line" /\ spc = "returned") =>
        /\ sresult = SubSeq(sstream, 1, FindCRLF(sstream) - 1)
        /\ Remaining = SubSeq(sstream, FindCRLF(sstream) + 2, Len(sstream))

\* C24: read_line never accumulates more bytes than the capacity of the
\* buffer and never returns a line longer than it: it fails with the
\* line-too-long error before that.
C24_LineWithinCapacity ==
    sop.name = "read_line" =>
        /\ Len(sr) <= MaxRdbuf
        /\ spc = "returned" => Len(sresult) <= MaxRdbuf

\* the methods handle_request names: CONNECT and the methods it forwards
NamedMethods ==
    {"CONNECT", "GET", "HEAD", "POST", "PUT", "DELETE", "TRACE", "OPTIONS"}

\* read_request has returned a request whose method handle_request does
\* not name, and the handler is at work on it
UnknownMethodInHand ==
    nread > 0 /\ req.method \notin NamedMethods /\ pc # "read_request"

\* C25: for a request with an unknown method the handler opens no upstream
\* connection and writes nothing to the client, and it closes the connection
\* of the client (and the upstream slot) before it ends.
C25_UnknownMethodRejected ==
    [][UnknownMethodInHand =>
          /\ pc \in {"handle_request", "except", "finally", "done"}
          /\ Len(socks') = Len(socks)
          /\ obs'.nconnect = obs.nconnect
          /\ obs'.wrote = obs.wrote
          /\ nresp' = nresp
          /\ obs'.synth = obs.synth
          /\ pc' = "done" => (~client_open' /\ OpenSocks' = {})]_vars

\* a request with an unknown method has ended a handler that had served a
\* request before it over an upstream connection
C25_Witness ==
    /\ pc = "done"
    /\ req.method \notin NamedMethods
    /\ exc = Raise("IOException", "handle_request")
    /\ nresp > 0
    /\ ~client_open

\* the entries of an HttpHeaders in the order iteration yields them
Entries(headers) ==
    [i \in 1..Len(headers.keys) |-> <<headers.keys[i], headers.values[i]>>]

\* the indices of the entries whose key equals key ignoring case
Matches(headers, key) ==
    {i \in 1..Len(headers.keys) : lower(headers.keys[i]) = lower(key)}

\* the entries of seq at the indices of keep, in the order of seq
Surviving(seq, keep) ==
    [j \in 1..Cardinality(keep) |->
        seq[CHOOSE i \in keep : Cardinality({x \in keep : x <= i}) = j]]

\* C26: after every append, set and delete, iteration yields the surviving
\* entries in insertion order.  set(k, v) on a map that has k (ignoring
\* case) replaces the value of the first match in place, removes every
\* later match and leaves the other entries and their order as they were;
\* on a map without k it appends (k, v); get(k) then returns v.
C26_OrderedMultimap ==
    LET before == hlast.before
        key == hlast.key
        hit == Matches(before, key)
        first == CHOOSE i \in hit : \A j \in hit : i <= j
        others == (1..Len(before.keys)) \ hit
    IN  /\ hlast.name = "append" =>
              Entries(hmap) = Append(Entries(before), <<key, hlast.value>>)
        /\ (hlast.name = "set" /\ hit = {}) =>
              Entries(hmap) = Append(Entries(before), <<key, hlast.value>>)
        /\ (hlast.name = "set" /\ hit # {}) =>
              Entries(hmap) =
                  Surviving([Entries(before) EXCEPT
                                 ![first] = <<before.keys[first], hlast.value>>],
                            others \cup {first})
        /\ hlast.name = "set" => get(hmap, key) = hlast.value
        /\ hlast.name = "delete" =>
              Entries(hmap) = Surviving(Entries(before), others)

\* set has replaced the value of a key that the map held more than once,
\* in both cases, with an entry of another key after the first of them
C26_Witness ==
    /\ hlast.name = "set"
    /\ Cardinality(Matches(hlast.before, hlast.key)) >= 2
    /\ \E i, j \in Matches(hlast.before, hlast.key) :
          hlast.before.keys[i] # hlast.before.keys[j]
    /\ Len(hmap.keys) = 2
    /\ get(hlast.before, hlast.key) # hlast.value

\* read_request or read_response has returned the message
Returned == bpc = "write_head"

\* C27: for every message read_request or read_response returns, a true
\* body_pending means that body is empty and that the stream is at the first
\* byte of the body; for a request whose method is none of GET, HEAD,
\* DELETE, CONNECT and TRACE, body_pending is the value read_message gave it.
C27_PendingMeansUnread ==
    Returned =>
        /\ BodyPending(bmsg) =>
              (bbody = <<>> /\ Unconsumed = bmsg.body \o bmsg.extra)
        /\ bmsg.kind = "POST" => BodyPending(bmsg) = body_pending(bmsg)

\* read_response leaves body_pending as read_message set it
ResponsePendingMeansUnread ==
    (Returned /\ bmsg.kind = "response") =>
        /\ BodyPending(bmsg) = body_pending(bmsg)
        /\ BodyPending(bmsg) =>
              (bbody = <<>> /\ Unconsumed = bmsg.body \o bmsg.extra)

\* an error has ended the handler: the outer frame of run() has caught it
\* and final_clean is next, or has run
ErrorEndedHandler == pc \in {"finally", "done"} /\ exc # NoExc

\* C28: every error that ends a handler, an IOException or any other
\* exception, is caught by the outer frame of run() and has produced a log
\* line before the cleanup runs, with LOG_LEVEL = 3.
C28_ErrorIsLogged ==
    ErrorEndedHandler => stdout # <<>>

\* every error that ends a handler is caught: the cleanup runs after it
ErrorIsCaught ==
    [][(exc # NoExc /\ pc' # pc) =>
          \/ pc = "except" /\ pc' = "finally"
          \/ pc = "finally" /\ pc' = "done"]_vars

\* C29: any fault inside ThreadingServer.run (creating the listening
\* socket, bind, listen, accept, starting a handler thread) is caught there;
\* run returns normally to main, which goes on to its backoff and restart
\* step: no exception leaves run.
C29_NoFaultEscapesRun ==
    mpc # "dead" /\ mexc = ""

\* a fault that follows the creation of the socket is caught, the socket is
\* closed and run returns to main
FaultAfterSocketIsCaught ==
    [][(mpc = "finally" /\ listen_s # None) =>
          (mpc' = "check" /\ mexc' = "" /\ listen_s' = None)]_vars

\* all four fields of the slot are set, and remote_addr names the peer of
\* the socket in remote_conn
SlotPopulated ==
    /\ remote_addr # NoAddr
    /\ remote_conn # None
    /\ remote_input # None
    /\ remote_output # None
    /\ socks[remote_conn].addr = remote_addr

\* the handler is inside the try block of one attempt of send_with_retry
InsideAttempt == pc \in {"connect", "write"}

\* C30: after every attempt of send_with_retry and after every step of
\* handle_CONNECT the upstream slot is entirely empty (remote_addr,
\* remote_conn, remote_input and remote_output all None) or entirely
\* populated (all four set, remote_addr naming the peer of remote_conn).
C30_SlotAllOrNothing ==
    ~InsideAttempt => (SlotEmpty \/ SlotPopulated)

\* what does hold of the slot: the two streams are set together with the
\* socket they wrap or not at all, and a socket in the slot is open
SlotStreamsTogether ==
    /\ (remote_input = None) = (remote_output = None)
    /\ remote_input # None => remote_input = remote_conn

\* code() or phrase() has been called on a line of the form
\* version SP code SP phrase
CalledOnStatusLine == cpc # "idle" /\ cline \in StatusLines

\* C31: for every status line of the form version SP code SP phrase,
\* code() terminates and returns the integer code, and phrase() terminates
\* and returns the phrase with its inner spaces.
C31_CodeAndPhraseReturn ==
    CalledOnStatusLine ~> (cpc = "returned")

\* the loop of code() and phrase() leaves a where it is, at the first space
LoopKeepsIndex ==
    CalledOnStatusLine => (ca = py_find(cline, " ", 0) /\ cpc \in {"while", "body"})

\* C32: when a CONNECT is accepted, every byte the client sent after the
\* blank line of the request reaches the upstream socket, in order: what
\* the upstream has been sent is the beginning of what the client wrote,
\* the bytes that came with the request head and sit in rdbuf included.
C32_EarlyBytesReachUpstream ==
    IsPrefix(eup, esent)

\* the tunnel itself loses and reorders nothing: the bytes are in rdbuf,
\* reached the upstream, or are still to be received, in that order
BytesAfterRdbufInOrder ==
    erdbuf \o eup \o ewire = esent

\* the bytes read_request left in rdbuf stay there
RdbufNeverForwarded ==
    [][epc # "read_request" => erdbuf' = erdbuf]_vars

\* copy_bytes is inside its loop
InCopyBytes == ypc \in {"while", "read_some"}

\* C33: for every integer value of Content-Length on a pending message,
\* the negative ones included, forward_message_body terminates: copy_bytes
\* copies the body and returns or fails with an error, and never loops for
\* ever while its source buffer is not empty.
C33_CopyBytesTerminates ==
    (InCopyBytes /\ yrdbuf # <<>>) ~> (~InCopyBytes \/ yrdbuf = <<>>)

\* with a Content-Length of 0 or more copy_bytes does not loop on a buffer
\* that is not empty
CopyBytesTerminatesFromZero ==
    (InCopyBytes /\ yrdbuf # <<>> /\ ycount >= 0) ~> (~InCopyBytes \/ yrdbuf = <<>>)

\* copy_bytes never writes more than count bytes, and writes the bytes of
\* the source in their order
CopiedInOrder ==
    /\ yout = Bytes(Len(yout))
    /\ ycount >= 0 => Len(yout) <= ycount

\* the handler is blocked in recv for bytes of the body of the response
WaitsForBody == zpc = "read" /\ zrdbuf = <<>>

\* C34: for a HEAD request, when the upstream answers with a head carrying
\* Content-Length: L > 0 and sends no body, the handler forwards the head
\* to the client and completes the exchange without waiting for L bytes of
\* body from the upstream.
C34_HeadResponseNotAwaited ==
    zmethod = "HEAD" => ~WaitsForBody

\* the response head to a HEAD request is forwarded when its
\* Content-Length is 0 and in no other case
HeadForwardedOnlyWithoutLength ==
    (zmethod = "HEAD" /\ zhead) => zlen = 0

\* the response to a GET is forwarded once its body has been read
GetForwardedAfterBody ==
    (zmethod = "GET" /\ zhead) => zbody = Bytes(zlen)
====
